---- MODULE Spec2Model ----
(***************************************************************************)
(* Verification model of the eSocial data exporter:                        *)
(*   - GerenciadorBancoDados (SQLite storage: inserir_dados,               *)
(*     executar_query),                                                    *)
(*   - ProcessadorXML (identificar_layout, _processar_arquivo,             *)
(*     processar_diretorio),                                               *)
(*   - ExportadorTemplatesEmpresa / ExportadorGenerico (CSV export).       *)
(* Each component has its own specification over the shared variables.     *)
(***************************************************************************)
EXTENDS Integers, Sequences, FiniteSets, TLC

VARIABLES
    bd,            \* table name -> sequence of stored rows (committed state)
    antes,         \* the committed tables as they were before the last call
    op,            \* the last operation performed
    retorno,       \* the value the last call returned
    erros,         \* batches of the last inserir_dados whose executemany raised
    col_desconhecida, \* the last inserir_dados got a column the table lacks
    escapou,       \* an exception of the last call reached its caller
    sql_exec,      \* statements the last executar_query handed to the cursor
    fila,          \* processar_diretorio: files selected and still to process
    arquivos_processados, \* ProcessadorXML.arquivos_processados
    arquivos_com_erro,    \* ProcessadorXML.arquivos_com_erro
    visitados,     \* number of files _processar_arquivo was called on
    ultimo,        \* the last file processed with the trace of its events
    saida,         \* output directory: file name -> "ausente" or its lines
    pendentes,     \* export run: templates still to attempt, in order
    tentados,      \* export run: templates attempted so far, in order
    ult_export,    \* the scenario of the last template attempted
    templates_processados, \* counter returned by the export run
    doc,           \* layout identification: the document handed in
    layout,        \* layout identification: the result
    entrada,       \* the arguments of the last call of a pure operation
    obtido         \* what that call returned

vars == << bd, antes, op, retorno, erros, col_desconhecida, escapou, sql_exec,
           fila, arquivos_processados, arquivos_com_erro, visitados, ultimo,
           saida, pendentes, tentados, ult_export, templates_processados,
           doc, layout, entrada, obtido >>

bdVars     == << bd, antes, op, retorno, erros, col_desconhecida, escapou, sql_exec >>
ingestVars == << fila, arquivos_processados, arquivos_com_erro, visitados, ultimo >>
exportVars == << saida, pendentes, tentados, ult_export, templates_processados >>
layoutVars == << doc, layout >>
funcVars   == << entrada, obtido >>

(***************************************************************************)
(* Bounds of the model                                                     *)
(***************************************************************************)
MaxDados  == 3    \* longest list handed to one inserir_dados call
MaxLinhas == 3    \* rows stored over all tables before calls stop

\* lote_size of inserir_dados (1000 in the source), scaled down so that one
\* call of MaxDados records spans more than one batch.
lote_size == 2

(***************************************************************************)
(* Storage: tables and records                                             *)
(***************************************************************************)
NULL   == "NULL"        \* SQL NULL / Python None
Objeto == "<object>"    \* a Python value sqlite3 cannot bind (raises on execute)

\* The tables of the model: one without and one with a UNIQUE constraint.
Tabelas == {"esocial_s2205", "esocial_s2206"}

\* "UNIQUE(" in table_sql.upper(): only esocial_s2206 declares UNIQUE(...).
TemUnique(t) == t = "esocial_s2206"

\* PRAGMA table_info: id, the key columns (chave stands for the columns of
\* the UNIQUE constraint), the other data columns (valor).
ColunasTabela == {"id", "chave", "valor"}

Chaves  == {"k1", "k2"}
Valores == {"v1", "v2"}

\* A value that is not a dict (e.g. None inside the list).
NaoDict == [nao_dict |-> TRUE]
EhDict(r) == r # NaoDict

\* The records a caller may pass.
RegistrosBons == [chave : Chaves, valor : Valores]
RegistroObjeto == [chave |-> "k1", valor |-> Objeto]
RegistroColunaExtra == [chave |-> "k2", valor |-> "v1", inexistente |-> "x"]
Registros == RegistrosBons \cup {RegistroObjeto, RegistroColunaExtra, NaoDict}

RECURSIVE SeqsAte(_, _)
SeqsAte(S, n) ==
    IF n = 0 THEN {<< >>}
    ELSE LET menores == SeqsAte(S, n - 1)
         IN menores \cup {Append(s, x) : s \in {m \in menores : Len(m) = n - 1}, x \in S}

BdVazio == [t \in Tabelas |-> << >>]

TotalLinhas(b) == Len(b["esocial_s2205"]) + Len(b["esocial_s2206"])

\* registro.get(coluna)
Get(registro, coluna) ==
    IF coluna \in DOMAIN registro THEN registro[coluna] ELSE NULL

\* id INTEGER PRIMARY KEY AUTOINCREMENT: rows are never deleted here, so the
\* next id is one more than the largest id of the table.
RECURSIVE MaxId(_)
MaxId(linhas) ==
    IF linhas = << >> THEN 0
    ELSE LET r == MaxId(Tail(linhas))
         IN IF Head(linhas).id > r THEN Head(linhas).id ELSE r

\* Position of the row that conflicts with `chave` under UNIQUE (0 = none).
\* NULL keys never conflict in SQLite.
Conflito(linhas, chave) ==
    IF chave = NULL \/ ~(\E i \in 1..Len(linhas) : linhas[i].chave = chave)
    THEN 0
    ELSE CHOOSE i \in 1..Len(linhas) : linhas[i].chave = chave

\* An UPSERT that keeps the stored row (ON CONFLICT DO NOTHING).
ColunasAtualizadasNenhuma(colunas) == {}

\* The UPSERT's SET list: every passed column except id.
ColunasAtualizadas(colunas) == colunas \ {"id"}

\* cursor.execute(sql, valores_linha) for one row of a batch.
\* Returns [ok, linhas]: ok = FALSE when binding a parameter raises.
Executar(linhas, t, colunas, vl) ==
    IF \E c \in colunas : vl[c] = Objeto
    THEN [ok |-> FALSE, linhas |-> linhas]
    ELSE LET k == IF "chave" \in colunas THEN vl["chave"] ELSE NULL
             i == IF TemUnique(t) THEN Conflito(linhas, k) ELSE 0
             nova == [id    |-> IF "id" \in colunas THEN vl["id"] ELSE MaxId(linhas) + 1,
                      chave |-> k,
                      valor |-> IF "valor" \in colunas THEN vl["valor"] ELSE NULL]
         IN IF i = 0
            THEN [ok |-> TRUE, linhas |-> Append(linhas, nova)]
            ELSE [ok |-> TRUE,
                  linhas |-> [linhas EXCEPT ![i] =
                      [c \in DOMAIN linhas[i] |->
                          IF c \in ColunasAtualizadas(colunas) THEN vl[c]
                          ELSE linhas[i][c]]]]

\* cursor.executemany(sql, valores): row by row, stopping at the first row
\* that raises; the rows executed before it stay in the open transaction.
RECURSIVE ExecuteMany(_, _, _, _)
ExecuteMany(linhas, t, colunas, valores) ==
    IF valores = << >> THEN [ok |-> TRUE, linhas |-> linhas]
    ELSE LET r == Executar(linhas, t, colunas, Head(valores))
         IN IF r.ok THEN ExecuteMany(r.linhas, t, colunas, Tail(valores))
            ELSE [ok |-> FALSE, linhas |-> r.linhas]

\* The batch loop of inserir_dados (for idx, registro in enumerate(dados)).
\* est = [linhas, valores, inseridos, erros, excecao].
RECURSIVE LoteLoop(_, _, _, _, _)
LoteLoop(est, t, colunas, dados, idx) ==
    IF idx > Len(dados) \/ est.excecao THEN est
    ELSE IF ~EhDict(dados[idx])
    THEN [est EXCEPT !.excecao = TRUE]       \* registro.get raises AttributeError
    ELSE LET vl == [c \in colunas |-> Get(dados[idx], c)]
             valores == Append(est.valores, vl)
         IN IF Len(valores) >= lote_size \/ idx = Len(dados)
            THEN LET r == ExecuteMany(est.linhas, t, colunas, valores)
                 IN IF r.ok
                    THEN LoteLoop([est EXCEPT !.linhas = r.linhas,
                                              !.valores = << >>,
                                              !.inseridos = @ + Len(valores)],
                                  t, colunas, dados, idx + 1)
                    ELSE LoteLoop([est EXCEPT !.linhas = r.linhas,
                                              !.valores = valores,
                                              !.erros = @ + 1],
                                  t, colunas, dados, idx + 1)
            ELSE LoteLoop([est EXCEPT !.valores = valores], t, colunas, dados, idx + 1)

\* Result of a call that wrote nothing.
SemEfeito(b) == [bd |-> b, retorno |-> 0, erros |-> 0, escapou |-> FALSE]

\* GerenciadorBancoDados.inserir_dados(nome_tabela, dados) on committed
\* tables b: [bd (committed tables after), retorno, erros, escapou].
inserir_dados(b, nome_tabela, dados) ==
    IF dados = << >> THEN SemEfeito(b)
    ELSE IF nome_tabela \notin DOMAIN b THEN SemEfeito(b)
    ELSE IF ~EhDict(dados[1]) THEN SemEfeito(b)      \* .keys() raises: rollback
    ELSE LET colunas == DOMAIN dados[1]
         IN IF ~(colunas \subseteq ColunasTabela) THEN SemEfeito(b)  \* rollback, return 0
            ELSE LET fim == LoteLoop([linhas |-> b[nome_tabela], valores |-> << >>,
                                      inseridos |-> 0, erros |-> 0, excecao |-> FALSE],
                                     nome_tabela, colunas, dados, 1)
                 IN IF fim.excecao
                    THEN SemEfeito(b)                 \* except: conn.rollback(); return 0
                    ELSE [bd |-> [b EXCEPT ![nome_tabela] = fim.linhas],   \* conn.commit()
                          retorno |-> fim.inseridos,
                          erros |-> fim.erros,
                          escapou |-> FALSE]

(***************************************************************************)
(* Storage: the read entry point                                           *)
(***************************************************************************)
\* The SQL texts a caller may pass: how the text begins, and the table named.
Brutos == {"select", "  SELECT", "pragma", "EXPLAIN", "insert", " Delete",
           "UPDATE", "with"}
Consultas == [bruto : Brutos, alvo : Tabelas]

\* sql.lower().strip(), on the leading keyword.
lower_strip(bruto) ==
    CASE bruto = "  SELECT" -> "select"
      [] bruto = "EXPLAIN"  -> "explain"
      [] bruto = " Delete"  -> "delete"
      [] bruto = "UPDATE"   -> "update"
      [] OTHER              -> bruto

\* A guard that lets every statement through.
EhLeituraSempre(sql_lower) == TRUE

\* sql_lower.startswith(("select", "pragma", "explain"))
EhLeitura(sql_lower) == sql_lower \in {"select", "pragma", "explain"}

\* What SQLite does to the tables when the cursor executes a statement.
EfeitoSql(b, comando, alvo) ==
    CASE comando = "delete" -> [b EXCEPT ![alvo] = << >>]
      [] comando = "update" ->
            [b EXCEPT ![alvo] = [i \in DOMAIN b[alvo] |-> [b[alvo][i] EXCEPT !.valor = "v2"]]]
      [] comando = "insert" ->
            [b EXCEPT ![alvo] = Append(b[alvo],
                [id |-> MaxId(b[alvo]) + 1, chave |-> "k1", valor |-> "v1"])]
      [] OTHER -> b

\* max_rows (1000 in the source) and the size of one cursor.fetchmany (100 in
\* the source), scaled down so that a table of the model can hold more rows
\* than max_rows.
max_rows   == 2
fetch_size == 1

\* The fetch loop of executar_query: batches of fetch_size rows are added to
\* the result until the cursor is exhausted or max_rows rows were fetched.
RECURSIVE FetchLoop(_, _)
FetchLoop(result, restantes) ==
    IF restantes = << >> THEN result
    ELSE LET n == IF Len(restantes) < fetch_size THEN Len(restantes) ELSE fetch_size
             novo == result \o SubSeq(restantes, 1, n)
         IN IF Len(novo) >= max_rows THEN novo
            ELSE FetchLoop(novo, SubSeq(restantes, n + 1, Len(restantes)))

\* GerenciadorBancoDados.executar_query(sql): [bd, retorno, executados].
\* executados lists the statements handed to cursor.execute; the EXPLAIN
\* QUERY PLAN of a statement does not run the statement.
executar_query(b, sql) ==
    LET sql_lower == lower_strip(sql.bruto)
    IN IF ~EhLeitura(sql_lower)
       THEN [bd |-> b, retorno |-> << >>, executados |-> << >>]
       ELSE LET plano == IF sql_lower # "explain" THEN << "explain" >> ELSE << >>
                depois == EfeitoSql(b, sql_lower, sql.alvo)
            IN [bd |-> depois,
                retorno |-> IF sql_lower = "select"
                            THEN FetchLoop(<< >>, depois[sql.alvo]) ELSE << >>,
                executados |-> Append(plano, sql_lower)]

(***************************************************************************)
(* Specification of the storage engine                                     *)
(***************************************************************************)
NomesTabela == Tabelas \cup {"inexistente"}

\* Some record of dados has a column the table does not have.
TemColunaDesconhecida(dados) ==
    \E i \in 1..Len(dados) :
        EhDict(dados[i]) /\ ~(DOMAIN dados[i] \subseteq ColunasTabela)

InitBd ==
    /\ bd = BdVazio
    /\ antes = BdVazio
    /\ op = "init"
    /\ retorno = 0
    /\ erros = 0
    /\ col_desconhecida = FALSE
    /\ escapou = FALSE
    /\ sql_exec = << >>

InitIngest ==
    /\ fila = [total |-> 0, restantes |-> 0]
    /\ arquivos_processados = 0
    /\ arquivos_com_erro = 0
    /\ visitados = 0
    /\ ultimo = << >>

InitExport ==
    /\ saida = << >>
    /\ pendentes = [exportador |-> "nenhum", nomes |-> << >>]
    /\ tentados = << >>
    /\ ult_export = << >>
    /\ templates_processados = 0

InitLayout ==
    /\ doc = << >>
    /\ layout = NULL

InitFunc ==
    /\ entrada = << >>
    /\ obtido = NULL

Init == InitBd /\ InitIngest /\ InitExport /\ InitLayout /\ InitFunc

InserirDados ==
    \E t \in NomesTabela, d \in SeqsAte(Registros, MaxDados) :
        /\ TotalLinhas(bd) + Len(d) <= MaxLinhas
        /\ LET r == inserir_dados(bd, t, d)
           IN /\ bd' = r.bd
              /\ retorno' = r.retorno
              /\ erros' = r.erros
              /\ escapou' = r.escapou
        /\ antes' = bd
        /\ op' = "inserir_dados"
        /\ col_desconhecida' = (t \in Tabelas /\ TemColunaDesconhecida(d))
        /\ sql_exec' = << >>
        /\ UNCHANGED << funcVars, ingestVars, exportVars, layoutVars >>

ExecutarQuery ==
    \E q \in Consultas :
        /\ LET r == executar_query(bd, q)
           IN /\ bd' = r.bd
              /\ retorno' = r.retorno
              /\ sql_exec' = r.executados
        /\ antes' = bd
        /\ op' = "executar_query"
        /\ erros' = 0
        /\ col_desconhecida' = FALSE
        /\ escapou' = FALSE
        /\ UNCHANGED << funcVars, ingestVars, exportVars, layoutVars >>

Next == InserirDados \/ ExecutarQuery

Spec == Init /\ [][Next]_vars

(***************************************************************************)
(* Layout identification                                                   *)
(***************************************************************************)
MaxNos == 4    \* most elements of one document handed to identificar_layout

\* ESOCIAL_EVENT_PATTERNS: marker tag -> layout code.
Marcadores == {"evtTabLotacao", "evtTabCargo", "evtRemun", "evtAdmissao",
               "evtAltCadastral", "evtAltContratual", "evtAfastTemp"}
ESOCIAL_EVENT_PATTERNS(marcador) ==
    CASE marcador = "evtTabLotacao"    -> "S-1020"
      [] marcador = "evtTabCargo"      -> "S-1030"
      [] marcador = "evtRemun"         -> "S-1200"
      [] marcador = "evtAdmissao"      -> "S-2200"
      [] marcador = "evtAltCadastral"  -> "S-2205"
      [] marcador = "evtAltContratual" -> "S-2206"
      [] marcador = "evtAfastTemp"     -> "S-2230"

\* Namespace URIs of the documents of the model ("" = no namespace).
NsSem    == ""
NsAdm    == "http://www.esocial.gov.br/schema/evt/evtAdmissao/v02_05_00"
NsAdmS1  == "http://www.esocial.gov.br/schema/evt/evtAdmissao/v_S_01_02_00"
NsLote   == "http://www.esocial.gov.br/schema/lote/eventos/envio/v1_1_1"
Namespaces == {NsSem, NsAdm, NsAdmS1, NsLote}

\* The known marker a namespace URI contains (`evento in namespace`).
MarcadorNoNamespace(ns) ==
    IF ns \in {NsAdm, NsAdmS1} THEN "evtAdmissao" ELSE NULL

\* Local tag names of the documents of the model.
TagsLocais == {"eSocial", "evtAdmissao", "evtAltContratual", "evtTabRubrica", "ideEvento"}

\* An element is [ns, local, filhos]; ElementTree's el.tag is "{ns}local",
\* or "local" when there is no namespace.
\* tag_name.split('}')[1] when '}' is in the tag, else the tag itself.
NomeLocal(el) == el.local

\* el.tag.endswith('eSocial')
TerminaEmESocial(el) == el.local = "eSocial"

\* tag_name.startswith('evt')
ComecaComEvt(nome) == nome \in {"evtAdmissao", "evtAltContratual", "evtTabRubrica"}

\* root.iter(): the element and its descendants in document order.
RECURSIVE Iter(_)
RECURSIVE IterFilhos(_)
Iter(el) == << el >> \o IterFilhos(el.filhos)
IterFilhos(filhos) ==
    IF filhos = << >> THEN << >>
    ELSE Iter(Head(filhos)) \o IterFilhos(Tail(filhos))

\* "No element" (Python None where an element is expected).
Nenhum == [nenhum |-> TRUE]

\* The first element of a sequence that satisfies a test given as a set of
\* positions, or Nenhum.
Primeiro(seq, posicoes) ==
    IF posicoes = {} THEN Nenhum
    ELSE seq[CHOOSE i \in posicoes : \A j \in posicoes : i <= j]

\* encontrar_primeiro_esocial(root)
encontrar_primeiro_esocial(root) ==
    IF TerminaEmESocial(root) THEN root
    ELSE LET els == Iter(root)
         IN Primeiro(els, {i \in 1..Len(els) : TerminaEmESocial(els[i])})

\* The code of the first element of els whose local tag is a marker, or NULL.
PrimeiroMarcador(els) ==
    LET p == Primeiro(els, {i \in 1..Len(els) : NomeLocal(els[i]) \in Marcadores})
    IN IF p = Nenhum THEN NULL ELSE ESOCIAL_EVENT_PATTERNS(NomeLocal(p))

\* A fallback without the scan for markers: only the 'evt' prefix rule.
FallbackSoPrefixo(root) ==
    LET els == Iter(root)
        e == Primeiro(els, {i \in 1..Len(els) : ComecaComEvt(NomeLocal(els[i]))})
    IN IF e # Nenhum THEN NomeLocal(e) ELSE NULL

\* The last two rules of identificar_layout: scan every element of root.iter()
\* for a marker, then for a tag that begins with 'evt'.
Fallback(root) ==
    LET els == Iter(root)
        m == PrimeiroMarcador(els)
        e == Primeiro(els, {i \in 1..Len(els) : ComecaComEvt(NomeLocal(els[i]))})
    IN IF m # NULL THEN m
       ELSE IF e # Nenhum THEN NomeLocal(e)
       ELSE NULL

\* Identification that first maps a marker found in the root's namespace.
identificar_layout_namespace(root0) ==
    IF MarcadorNoNamespace(root0.ns) # NULL
    THEN ESOCIAL_EVENT_PATTERNS(MarcadorNoNamespace(root0.ns))
    ELSE Fallback(root0)

\* Identification that only knows the documents of one schema version.
identificar_layout_versao(root0) ==
    IF root0.ns \in {NsSem, NsAdm} THEN Fallback(root0) ELSE NULL

\* identificar_layout(root)
identificar_layout(root0) ==
    LET esocial_elem == encontrar_primeiro_esocial(root0)
        root == IF esocial_elem # Nenhum THEN esocial_elem ELSE root0
        direto == IF TerminaEmESocial(root)
                  THEN PrimeiroMarcador(root.filhos)
                  ELSE IF NomeLocal(root) \in Marcadores
                       THEN ESOCIAL_EVENT_PATTERNS(NomeLocal(root))
                       ELSE NULL
    IN IF direto # NULL THEN direto ELSE Fallback(root)

\* The documents handed to identification: every ordered tree of at most
\* MaxNos elements over TagsLocais, all elements in the document's namespace.
RECURSIVE Arvores(_, _)
RECURSIVE Florestas(_, _)
Arvores(n, ns) ==
    IF n <= 0 THEN {}
    ELSE {[ns |-> ns, local |-> tg, filhos |-> f] : tg \in TagsLocais, f \in Florestas(n - 1, ns)}
Florestas(m, ns) ==
    IF m = 0 THEN {<< >>}
    ELSE UNION {{<< a >> \o f : a \in Arvores(k, ns), f \in Florestas(m - k, ns)} : k \in 1..m}

\* The document handed to identificar_layout: any tree of at most MaxNos
\* elements, in any of the namespaces.
InitLayoutDoc ==
    /\ \E n \in 1..MaxNos, ns \in Namespaces : doc \in Arvores(n, ns)
    /\ layout = "pendente"

Identificar ==
    /\ layout = "pendente"
    /\ layout' = identificar_layout(doc)
    /\ UNCHANGED << funcVars, doc, bdVars, ingestVars, exportVars >>

InitSpecLayout == InitBd /\ InitIngest /\ InitExport /\ InitLayoutDoc /\ InitFunc

SpecLayout == InitSpecLayout /\ [][Identificar]_vars

(***************************************************************************)
(* Ingestion: ProcessadorXML                                               *)
(***************************************************************************)
MaxArquivos == 2   \* most files selected for one directory run
MaxEventos  == 2   \* most events under one envelope

\* self.processadores: the layouts with a registered extractor.
LayoutsSuportados == {"S-1020", "S-1030", "S-1200", "S-2200", "S-2205", "S-2206", "S-2230"}

\* An event element carries what its extractor will find in it (carga):
\* whether the extraction raises, and the key and data values it yields.
Evento(local, extracao, chave, valor) ==
    [ns |-> NsSem, local |-> local, filhos |-> << >>,
     carga |-> [extracao |-> extracao, chave |-> chave, valor |-> valor]]

EventosModelo ==
    {Evento("evtAltContratual", "ok", "k1", "v1"),
     Evento("evtAltContratual", "ok", "k1", "v2"),
     Evento("evtAltContratual", "ok", "k2", "v1"),
     Evento("evtAltContratual", "erro", "k1", "v1"),
     Evento("evtAltCadastral", "ok", "k1", "v1"),
     Evento("evtAltCadastral", "ok", "k1", Objeto),    \* a record storage refuses
     Evento("evtTabRubrica", "ok", "k1", "v1"),
     Evento("ideEvento", "ok", "k1", "v1")}

\* The events the envelopes of the model are made of.
EventosDeEnvelope ==
    {Evento("evtAltContratual", "ok", "k1", "v1"),
     Evento("evtAltContratual", "ok", "k1", "v2"),
     Evento("evtAltContratual", "erro", "k1", "v1"),
     Evento("evtTabRubrica", "ok", "k1", "v1"),
     Evento("ideEvento", "ok", "k1", "v1")}

Envelope(eventos) == [ns |-> NsSem, local |-> "eSocial", filhos |-> eventos]

\* The files a run may meet: missing, shorter than 50 bytes, not well-formed,
\* a single event as root, or an envelope of events.
ArquivosInvalidos == {[estado |-> e] : e \in {"ausente", "pequeno", "malformado"}}
Arquivos ==
    ArquivosInvalidos
    \cup {[estado |-> "ok", raiz |-> ev] : ev \in EventosModelo}
    \cup {[estado |-> "ok", raiz |-> Envelope(evs)] : evs \in SeqsAte(EventosDeEnvelope, MaxEventos)}

\* A processor whose try/except is missing: the extraction error propagates.
processar_evento_sem_try(b, codigo_layout, evento) ==
    [bd |-> b, resultado |-> FALSE, levantou |-> evento.carga.extracao = "erro"]

\* The table a registered extractor writes to (esocial_<layout>).
TabelaDoLayout(codigo_layout) ==
    IF codigo_layout = "S-2206" THEN "esocial_s2206" ELSE "esocial_s2205"

\* self.processadores[layout](evento, caminho): [bd, resultado, levantou].
\* Every _processar_sXXXX wraps its body in try/except and returns False on
\* an exception.  _processar_s2206 returns registros > 0; _processar_s2205
\* returns True after the insert.
processar_evento(b, codigo_layout, evento) ==
    IF evento.carga.extracao = "erro" \/ codigo_layout \notin {"S-2205", "S-2206"}
    THEN [bd |-> b, resultado |-> FALSE, levantou |-> FALSE]
    ELSE LET registro == [chave |-> evento.carga.chave, valor |-> evento.carga.valor]
             r == inserir_dados(b, TabelaDoLayout(codigo_layout), << registro >>)
         IN [bd |-> r.bd,
             resultado |-> (codigo_layout = "S-2205" \/ r.retorno > 0),
             levantou |-> r.escapou]

\* A file that cannot be read whose error is not caught.
ArquivoInvalidoLevanta(b) ==
    [bd |-> b, d_proc |-> 0, d_erro |-> 0, resultado |-> FALSE,
     escapou |-> TRUE, parar |-> TRUE, trace |-> << >>]

\* _processar_arquivo on a missing, too small or unparseable file:
\* arquivos_com_erro += 1; return False.
ArquivoInvalido(b) ==
    [bd |-> b, d_proc |-> 0, d_erro |-> 1, resultado |-> FALSE,
     escapou |-> FALSE, parar |-> TRUE, trace |-> << >>]

\* What became of one element, given its layout code and the result r of
\* its processor (r is only looked at when the processor is called).
Desfecho(codigo_layout, r) ==
    IF codigo_layout = NULL THEN "nao_identificado"
    ELSE IF codigo_layout \notin LayoutsSuportados THEN "nao_suportado"
    ELSE IF r.levantou THEN "excecao"
    ELSE IF r.resultado THEN "ok" ELSE "falha"

\* An event of an envelope that is not identified or not supported is
\* skipped (continue) without touching a counter; a root in the same case is
\* counted as an error, like a processor that returns False or raises.
ContaErro(desfecho, em_envelope) ==
    \/ desfecho \in {"excecao", "falha"}
    \/ desfecho \in {"nao_identificado", "nao_suportado"} /\ ~em_envelope

\* est = [bd, d_proc, d_erro, resultado, escapou, parar, trace].  An
\* exception that leaves the processor reaches the except of
\* _processar_arquivo, which ends the loop (parar).
Acumular(est, r, desfecho, conta_erro) ==
    [bd |-> IF desfecho \in {"ok", "falha"} THEN r.bd ELSE est.bd,
     d_proc |-> est.d_proc + (IF desfecho = "ok" THEN 1 ELSE 0),
     d_erro |-> est.d_erro + (IF conta_erro THEN 1 ELSE 0),
     resultado |-> est.resultado /\ ~conta_erro,
     escapou |-> FALSE,
     parar |-> desfecho = "excecao",
     trace |-> Append(est.trace, desfecho)]

TratarComLayout(est, em_envelope, codigo_layout, r) ==
    Acumular(est, r, Desfecho(codigo_layout, r),
             ContaErro(Desfecho(codigo_layout, r), em_envelope))

\* What _processar_arquivo does with one element: an event of an envelope
\* (em_envelope) or the root of a single-event document.
TratarElemento(est, elemento, em_envelope) ==
    TratarComLayout(est, em_envelope, identificar_layout(elemento),
                    processar_evento(est.bd, identificar_layout(elemento), elemento))

\* The loop over the events of an envelope (for evento in list(root)).
RECURSIVE EventosLoop(_, _)
EventosLoop(est, eventos) ==
    IF eventos = << >> \/ est.parar THEN est
    ELSE EventosLoop(TratarElemento(est, Head(eventos), TRUE), Tail(eventos))

\* ProcessadorXML._processar_arquivo(caminho_arquivo) on committed tables b:
\* [bd, d_proc, d_erro (increments of the two counters), resultado, escapou,
\*  parar, trace (what happened to each element, in order)].
processar_arquivo(b, arquivo) ==
    IF arquivo.estado # "ok" THEN ArquivoInvalido(b)
    ELSE LET ini == [bd |-> b, d_proc |-> 0, d_erro |-> 0, resultado |-> TRUE,
                     escapou |-> FALSE, parar |-> FALSE, trace |-> << >>]
         IN IF TerminaEmESocial(arquivo.raiz)
            THEN EventosLoop(ini, arquivo.raiz.filhos)
            ELSE TratarElemento(ini, arquivo.raiz, FALSE)

\* processar_diretorio after it has reset the counters and selected the
\* supported files: fila.total files were selected, fila.restantes remain.
InitDiretorio ==
    /\ fila \in {[total |-> n, restantes |-> n] : n \in 1..MaxArquivos}
    /\ arquivos_processados = 0
    /\ arquivos_com_erro = 0
    /\ visitados = 0
    /\ ultimo = [arquivo |-> [estado |-> "nenhum"], repetido |-> FALSE,
                 trace |-> << >>, resultado |-> FALSE, com_erro_antes |-> 0]

\* The effect of one call of _processar_arquivo with result r.  An exception
\* that leaves _processar_arquivo ends the run.
RegistrarArquivo(arquivo, r) ==
    /\ bd' = r.bd
    /\ arquivos_processados' = arquivos_processados + r.d_proc
    /\ arquivos_com_erro' = arquivos_com_erro + r.d_erro
    /\ escapou' = r.escapou
    /\ fila' = [fila EXCEPT !.restantes = IF r.escapou THEN 0 ELSE @ - 1]
    /\ ultimo' = [arquivo |-> arquivo,
                  repetido |-> (arquivo = ultimo.arquivo),
                  trace |-> r.trace,
                  resultado |-> r.resultado,
                  com_erro_antes |-> arquivos_com_erro]

\* One iteration of the loop of processar_diretorio: the next selected file
\* is opened (its content is only known now) and processed.
ProcessarArquivo ==
    \E arquivo \in Arquivos :
        /\ fila.restantes > 0
        /\ RegistrarArquivo(arquivo, processar_arquivo(bd, arquivo))
        /\ antes' = bd
        /\ visitados' = visitados + 1
        /\ op' = "processar_arquivo"
        /\ UNCHANGED << funcVars, retorno, erros, col_desconhecida, sql_exec, exportVars, layoutVars >>

\* The end of processar_diretorio: return self.arquivos_processados.
ConcluirDiretorio ==
    /\ fila.restantes = 0
    /\ op # "processar_diretorio"
    /\ op' = "processar_diretorio"
    /\ retorno' = arquivos_processados
    /\ UNCHANGED << funcVars, bd, antes, erros, col_desconhecida, escapou, sql_exec,
                    ingestVars, exportVars, layoutVars >>

NextIngest == ProcessarArquivo \/ ConcluirDiretorio

InitSpecIngest == InitBd /\ InitDiretorio /\ InitExport /\ InitLayout /\ InitFunc

SpecIngest == InitSpecIngest /\ [][NextIngest]_vars

(***************************************************************************)
(* Export: ExportadorTemplatesEmpresa and ExportadorGenerico               *)
(***************************************************************************)
MaxTemplates == 3   \* templates handled by one export run of the model
MaxRegistros == 2   \* most rows the database yields for one template

\* self.templates_obrigatorios
templates_obrigatorios ==
    << "01_CONVTRABALHADOR.csv", "02_CONVCONTRATO.csv", "03_CONVCONTRATOALT.csv",
       "04_CONVDEPENDENTE.csv", "05_FERIAS.csv", "06_CONVFICHA.csv",
       "07_CARGOS.csv", "08_CONVAFASTAMENTO.csv", "09_CONVATESTADO.csv" >>

\* config['nome_arquivo'] of the entries of TEMPLATES_EXPORTACAO, in order.
TEMPLATES_EXPORTACAO ==
    << "funcionarios.csv", "cargos.csv", "lotacoes.csv", "remuneracoes.csv",
       "afastamentos.csv" >>

Min(a, b) == IF a <= b THEN a ELSE b

\* The templates one run of the model goes through.
TemplatesDaExecucao(exportador) ==
    IF exportador = "templates_empresa"
    THEN SubSeq(templates_obrigatorios, 1, Min(MaxTemplates, Len(templates_obrigatorios)))
    ELSE SubSeq(TEMPLATES_EXPORTACAO, 1, Min(MaxTemplates, Len(TEMPLATES_EXPORTACAO)))

\* self.configuracoes.COLUNAS_TEMPLATES[nome_template]: every mandatory
\* template has a configured, non-empty column list of its own.
COLUNAS_TEMPLATES(nome_template) == << << nome_template, "A" >>, << nome_template, "B" >> >>

\* The first line of the physical template file, as cells: no file, an
\* empty file, cells with blanks around and between them, only blank cells.
PrimeirasLinhas == {"sem_arquivo", << >>, << " B ", "", "A" >>, << " ", "" >>}

\* col.strip()
strip(col) ==
    CASE col = " B " -> "B"
      [] col = " " -> ""
      [] OTHER -> col

\* [col.strip() for col in primeira_linha if col.strip()]
RECURSIVE LimparColunas(_)
LimparColunas(primeira_linha) ==
    IF primeira_linha = << >> THEN << >>
    ELSE IF strip(Head(primeira_linha)) = "" THEN LimparColunas(Tail(primeira_linha))
    ELSE << strip(Head(primeira_linha)) >> \o LimparColunas(Tail(primeira_linha))

\* _ler_colunas_template(nome_template): the first line of the physical file
\* when there is one and it is not empty, else the configuration.
ler_colunas_template(nome_template, primeira_linha) ==
    IF primeira_linha # "sem_arquivo" /\ primeira_linha # << >>
    THEN LimparColunas(primeira_linha)
    ELSE COLUNAS_TEMPLATES(nome_template)

\* A file of the output directory: absent, or its lines in order.  A line is
\* a header (the column names) or the row of one record.
Ausente == [existe |-> FALSE, linhas |-> << >>]
Cabecalho(colunas) == [tipo |-> "cabecalho", colunas |-> colunas]
LinhasDeDados(colunas, n) == [i \in 1..n |-> [tipo |-> "registro", colunas |-> colunas, n |-> i]]

\* _criar_arquivo_vazio(nome_template, colunas) on the current file; abre
\* tells whether the output file can be opened for writing (an I/O error is
\* caught and logged).  The header is written only when colunas is not empty.
criar_arquivo_vazio(arquivo, colunas, abre) ==
    IF ~abre THEN arquivo
    ELSE [existe |-> TRUE,
          linhas |-> IF colunas # << >> THEN << Cabecalho(colunas) >> ELSE << >>]

\* _salvar_template_csv(nome_template, colunas, dados) with n rows of data.
salvar_template_csv(arquivo, colunas, n, abre) ==
    IF n = 0 THEN criar_arquivo_vazio(arquivo, colunas, abre)
    ELSE IF ~abre THEN arquivo
    ELSE [existe |-> TRUE,
          linhas |-> IF colunas # << >>
                     THEN << Cabecalho(colunas) >> \o LinhasDeDados(colunas, n)
                     ELSE << >>]

\* What the run meets for one template: the physical template file, the rows
\* the database yields, whether generating the data raises, and whether the
\* output file can be opened.
Cenarios ==
    [primeira_linha : PrimeirasLinhas, n : 0..MaxRegistros,
     gerar_levanta : BOOLEAN, abre : BOOLEAN]

\* The loop body without its try/except: the error leaves the loop.
exportar_um_template_sem_try(arquivo, nome_template, c) ==
    [arquivo |-> arquivo, contado |-> FALSE, erro |-> c.gerar_levanta,
     escapou |-> c.gerar_levanta,
     colunas |-> ler_colunas_template(nome_template, c.primeira_linha)]

\* The body of the loop of exportar_todos_templates for one template:
\* [arquivo (the output file afterwards), contado (templates_processados was
\*  incremented), erro (the except branch ran), escapou, colunas].
exportar_um_template(arquivo, nome_template, c) ==
    LET colunas_template == ler_colunas_template(nome_template, c.primeira_linha)
    IN IF colunas_template = << >>
       THEN [arquivo |-> criar_arquivo_vazio(arquivo, << >>, c.abre),
             contado |-> FALSE, erro |-> FALSE, escapou |-> FALSE,
             colunas |-> colunas_template]
       ELSE IF c.gerar_levanta
       THEN [arquivo |-> criar_arquivo_vazio(arquivo, << >>, c.abre),
             contado |-> FALSE, erro |-> TRUE, escapou |-> FALSE,
             colunas |-> colunas_template]
       ELSE [arquivo |-> salvar_template_csv(arquivo, colunas_template, c.n, c.abre),
             contado |-> TRUE, erro |-> FALSE, escapou |-> FALSE,
             colunas |-> colunas_template]

\* list(df.columns): the columns of the query behind a generic template.
ColunasDaConsulta(nome_arquivo) == << << nome_arquivo, "q1" >>, << nome_arquivo, "q2" >> >>

\* The body of the loop of ExportadorGenerico.exportar_todos for one
\* template: with no rows the template is skipped (continue) before
\* _salvar_csv is reached; an error is caught and logged.
exportar_um_generico(arquivo, nome_arquivo, c) ==
    LET colunas == ColunasDaConsulta(nome_arquivo)
    IN IF c.gerar_levanta
       THEN [arquivo |-> arquivo, contado |-> FALSE, erro |-> TRUE,
             escapou |-> FALSE, colunas |-> colunas]
       ELSE IF c.n = 0
       THEN [arquivo |-> arquivo, contado |-> FALSE, erro |-> FALSE,
             escapou |-> FALSE, colunas |-> colunas]
       ELSE [arquivo |-> IF c.abre
                         THEN [existe |-> TRUE,
                               linhas |-> << Cabecalho(colunas) >> \o LinhasDeDados(colunas, c.n)]
                         ELSE arquivo,
             contado |-> TRUE, erro |-> FALSE, escapou |-> FALSE, colunas |-> colunas]

\* The start of an export run of either exporter on an empty output
\* directory.
InitExportacao ==
    /\ \E exportador \in {"templates_empresa", "generico"} :
          /\ pendentes = [exportador |-> exportador, nomes |-> TemplatesDaExecucao(exportador)]
          /\ saida = [nome \in {TemplatesDaExecucao(exportador)[i] :
                                  i \in 1..Len(TemplatesDaExecucao(exportador))} |-> Ausente]
    /\ tentados = << >>
    /\ ult_export = [nome |-> "nenhum", erros |-> 0]
    /\ templates_processados = 0

\* The effect of one iteration with result r.  An error that leaves the
\* loop ends the run.
RegistrarTemplate(nome, c, r) ==
    /\ saida' = [saida EXCEPT ![nome] = r.arquivo]
    /\ templates_processados' = templates_processados + (IF r.contado THEN 1 ELSE 0)
    /\ escapou' = r.escapou
    /\ pendentes' = [pendentes EXCEPT !.nomes = IF r.escapou THEN << >> ELSE Tail(@)]
    /\ tentados' = Append(tentados, nome)
    /\ ult_export' = [nome |-> nome, cenario |-> c, colunas |-> r.colunas,
                      contado |-> r.contado, erro |-> r.erro,
                      erros |-> ult_export.erros + (IF r.erro THEN 1 ELSE 0)]

\* One iteration of the loop of exportar_todos_templates.
ExportarTemplate ==
    \E c \in Cenarios :
        /\ pendentes.exportador = "templates_empresa"
        /\ pendentes.nomes # << >>
        /\ RegistrarTemplate(Head(pendentes.nomes), c,
                exportar_um_template(saida[Head(pendentes.nomes)], Head(pendentes.nomes), c))
        /\ op' = "exportar_template"
        /\ UNCHANGED << funcVars, bd, antes, retorno, erros, col_desconhecida, sql_exec,
                        ingestVars, layoutVars >>

\* One iteration of the loop of ExportadorGenerico.exportar_todos.
ExportarGenerico ==
    \E c \in Cenarios :
        /\ pendentes.exportador = "generico"
        /\ pendentes.nomes # << >>
        /\ c.primeira_linha = "sem_arquivo"
        /\ RegistrarTemplate(Head(pendentes.nomes), c,
                exportar_um_generico(saida[Head(pendentes.nomes)], Head(pendentes.nomes), c))
        /\ op' = "exportar_generico"
        /\ UNCHANGED << funcVars, bd, antes, retorno, erros, col_desconhecida, sql_exec,
                        ingestVars, layoutVars >>

\* The end of either loop: return templates_processados.
ConcluirExportacao ==
    /\ pendentes.nomes = << >>
    /\ op # "exportacao_concluida"
    /\ op' = "exportacao_concluida"
    /\ retorno' = templates_processados
    /\ UNCHANGED << funcVars, bd, antes, erros, col_desconhecida, escapou, sql_exec,
                    ingestVars, exportVars, layoutVars >>

NextExport == ExportarTemplate \/ ExportarGenerico \/ ConcluirExportacao

InitSpecExport == InitBd /\ InitIngest /\ InitExportacao /\ InitLayout /\ InitFunc

SpecExport == InitSpecExport /\ [][NextExport]_vars

(***************************************************************************)
(* Export over stored rows: the data of a template comes from              *)
(* exportar_dados on the tables as ingestion left them.                    *)
(***************************************************************************)
\* mapeamentos[template]['fonte_principal']
fonte_principal(nome_template) ==
    CASE nome_template \in {"01_CONVTRABALHADOR.csv", "02_CONVCONTRATO.csv"} -> "esocial_s2200"
      [] nome_template = "03_CONVCONTRATOALT.csv" -> "esocial_s2205"
      [] nome_template = "04_CONVDEPENDENTE.csv" -> "esocial_dependentes"
      [] nome_template = "06_CONVFICHA.csv" -> "esocial_s1200"
      [] nome_template = "07_CARGOS.csv" -> "esocial_s1030"
      [] OTHER -> "esocial_s2230"

\* EXPORT_QUERIES[nome_exportacao] of a table source: "SELECT * FROM <table>".
\* As in ingestion, esocial_s2205 stands for every table but esocial_s2206.
EXPORT_QUERIES(nome_exportacao) ==
    [bruto |-> "  SELECT",
     alvo |-> IF nome_exportacao = "esocial_s2206" THEN "esocial_s2206" ELSE "esocial_s2205"]

\* A variant of exportar_dados that empties the table it has read.
exportar_dados_e_apagar(b, nome_exportacao) ==
    LET r == executar_query(b, EXPORT_QUERIES(nome_exportacao))
    IN [r EXCEPT !.bd = [b EXCEPT ![EXPORT_QUERIES(nome_exportacao).alvo] = << >>]]

\* GerenciadorBancoDados.exportar_dados(nome_exportacao), without parameters:
\* [bd, retorno, executados].
exportar_dados(b, nome_exportacao) ==
    executar_query(b, EXPORT_QUERIES(nome_exportacao))

\* The tables an export run may find: rows as inserir_dados leaves them, ids
\* in order and the keys of esocial_s2206 distinct.
LinhasS2205(n) == [i \in 1..n |-> [id |-> i, chave |-> "k1", valor |-> "v1"]]
LinhasS2206(n) == [i \in 1..n |-> [id |-> i, chave |-> IF i = 1 THEN "k1" ELSE "k2", valor |-> "v2"]]
BdsPovoados ==
    {[esocial_s2205 |-> LinhasS2205(a), esocial_s2206 |-> LinhasS2206(b)] :
        a \in 0..MaxLinhas, b \in 0..2}

InitBdPovoado ==
    /\ bd \in BdsPovoados
    /\ antes = bd
    /\ op = "init"
    /\ retorno = 0
    /\ erros = 0
    /\ col_desconhecida = FALSE
    /\ escapou = FALSE
    /\ sql_exec = << >>

InitExportacaoEmpresa ==
    /\ pendentes = [exportador |-> "templates_empresa",
                    nomes |-> TemplatesDaExecucao("templates_empresa")]
    /\ saida = [nome \in {TemplatesDaExecucao("templates_empresa")[i] :
                            i \in 1..Len(TemplatesDaExecucao("templates_empresa"))} |-> Ausente]
    /\ tentados = << >>
    /\ ult_export = [nome |-> "nenhum", erros |-> 0]
    /\ templates_processados = 0

\* One iteration of the loop of exportar_todos_templates on stored rows: the
\* columns are read; unless there are none, _gerar_dados_template asks
\* exportar_dados for the rows of the template's source (and may still fail
\* afterwards), and the file is written with what came back.
ExportarTemplateDoBanco ==
    \E primeira_linha \in {"sem_arquivo", << " ", "" >>}, gerar_levanta \in BOOLEAN, abre \in BOOLEAN :
        LET nome == Head(pendentes.nomes)
            consulta == ler_colunas_template(nome, primeira_linha) # << >>
            r == IF consulta THEN exportar_dados(bd, fonte_principal(nome))
                 ELSE [bd |-> bd, retorno |-> << >>, executados |-> << >>]
            c == [primeira_linha |-> primeira_linha, n |-> Len(r.retorno),
                  gerar_levanta |-> gerar_levanta, abre |-> abre]
        IN /\ pendentes.nomes # << >>
           /\ RegistrarTemplate(nome, c, exportar_um_template(saida[nome], nome, c))
           /\ bd' = r.bd
           /\ antes' = bd
           /\ sql_exec' = r.executados
           /\ op' = "exportar_template"
           /\ UNCHANGED << funcVars, retorno, erros, col_desconhecida, ingestVars, layoutVars >>

NextExportBd == ExportarTemplateDoBanco \/ ConcluirExportacao

InitSpecExportBd == InitBdPovoado /\ InitIngest /\ InitExportacaoEmpresa /\ InitLayout /\ InitFunc

SpecExportBd == InitSpecExportBd /\ [][NextExportBd]_vars

(***************************************************************************)
(* Clearing the tables before a new run                                    *)
(***************************************************************************)
MaxTrabalhadores == 2   \* S-2200 events ingested before ingestion stops
MaxDependentes   == 2   \* dependants declared by one S-2200 event

\* The tables of TABLE_SCHEMAS in this part of the model: those of Tabelas,
\* the workers of S-2200 and their dependants.
TabelasComDependentes == Tabelas \cup {"esocial_s2200", "esocial_dependentes"}

\* tabelas_esocial, the list limpar_dados_para_processamento walks (of the
\* seven names in the source, those that are tables of the model).
tabelas_esocial == << "esocial_s2200", "esocial_s2205", "esocial_s2206" >>

\* GerenciadorBancoDados.limpar_dados_para_processamento(): DELETE FROM each
\* listed table that exists, in one transaction; an exception rolls back and
\* gives False.  [bd, retorno].  (The ids handed out after a clearing are
\* not part of what is compared.)
limpar_dados_para_processamento(b, excecao) ==
    IF excecao THEN [bd |-> b, retorno |-> FALSE]
    ELSE [bd |-> [t \in DOMAIN b |->
                    IF \E i \in 1..Len(tabelas_esocial) : tabelas_esocial[i] = t
                    THEN << >> ELSE b[t]],
          retorno |-> TRUE]

InitBdComDependentes ==
    /\ bd = [t \in TabelasComDependentes |-> << >>]
    /\ antes = bd
    /\ op = "init"
    /\ retorno = 0
    /\ erros = 0
    /\ col_desconhecida = FALSE
    /\ escapou = FALSE
    /\ sql_exec = << >>

\* The inserts of _processar_s2200: the worker row, then the list of
\* dependants when there is one; the event succeeds whatever they return.
ProcessarS2200 ==
    \E vinculo_dict \in RegistrosBons,
       dependentes_list \in SeqsAte([chave : {"k1"}, valor : Valores], MaxDependentes) :
        LET r1 == inserir_dados(bd, "esocial_s2200", << vinculo_dict >>)
            r2 == IF dependentes_list # << >>
                  THEN inserir_dados(r1.bd, "esocial_dependentes", dependentes_list)
                  ELSE r1
        IN /\ Len(bd["esocial_s2200"]) < MaxTrabalhadores
           /\ Len(bd["esocial_dependentes"]) + Len(dependentes_list) <= MaxLinhas
           /\ bd' = r2.bd
           /\ antes' = bd
           /\ op' = "processar_s2200"
           /\ retorno' = TRUE
           /\ erros' = r1.erros + r2.erros
           /\ UNCHANGED << col_desconhecida, escapou, sql_exec, funcVars, ingestVars,
                           exportVars, layoutVars >>

LimparDadosParaProcessamento ==
    \E excecao \in BOOLEAN :
        LET r == limpar_dados_para_processamento(bd, excecao)
        IN /\ op # "limpar_dados"
           /\ bd' = r.bd
           /\ antes' = bd
           /\ op' = "limpar_dados"
           /\ retorno' = r.retorno
           /\ UNCHANGED << erros, col_desconhecida, escapou, sql_exec, funcVars, ingestVars,
                           exportVars, layoutVars >>

NextLimpeza == ProcessarS2200 \/ LimparDadosParaProcessamento

InitSpecLimpeza == InitBdComDependentes /\ InitIngest /\ InitExport /\ InitLayout /\ InitFunc

SpecLimpeza == InitSpecLimpeza /\ [][NextLimpeza]_vars

(***************************************************************************)
(* The program: main() from its arguments to its return code               *)
(***************************************************************************)
\* The calls of main that come before the first document is read, in order,
\* and the construction of the exporter, which comes after ingestion.
PassosDeInicio == << "Configuracoes", "atualizar_de_args", "os.remove",
                    "GerenciadorBancoDados", "ProcessadorXML" >>
PassosQueFalham ==
    {PassosDeInicio[i] : i \in 1..Len(PassosDeInicio)} \cup {"ExportadorTemplatesEmpresa", "nenhum"}

\* A main that reports a run in which nothing was ingested or exported.
main_retorno_exige_resultado(excecao, total_processado, templates_exportados) ==
    IF excecao \/ total_processado = 0 \/ templates_exportados = 0 THEN 1 ELSE 0

\* The value main returns: 1 from its except branch, 0 otherwise; the two
\* totals are only logged.
main_retorno(excecao, total_processado, templates_exportados) ==
    IF excecao THEN 1 ELSE 0

\* main is entered with the database file of an earlier run, with an input
\* directory of no or one selected file, and in an environment where at most
\* one of the construction steps raises (entrada.falha).
InitMain ==
    /\ entrada \in [passo : {"inicio"}, falha : PassosQueFalham]
    /\ obtido = NULL
    /\ bd \in BdsPovoados
    /\ antes = bd
    /\ op = "init"
    /\ retorno = 0
    /\ erros = 0
    /\ col_desconhecida = FALSE
    /\ escapou = FALSE
    /\ sql_exec = << >>
    /\ fila \in {[total |-> 0, restantes |-> 0], [total |-> 1, restantes |-> 1]}
    /\ arquivos_processados = 0
    /\ arquivos_com_erro = 0
    /\ visitados = 0
    /\ ultimo = [arquivo |-> [estado |-> "nenhum"], repetido |-> FALSE,
                 trace |-> << >>, resultado |-> FALSE, com_erro_antes |-> 0]

\* main leaves through return: the code in obtido.
RetornarMain(excecao) ==
    /\ obtido' = main_retorno(excecao, arquivos_processados, templates_processados)
    /\ entrada' = [entrada EXCEPT !.passo = "fim"]
    /\ op' = "main"

\* Configuracoes(), atualizar_de_args, removal of the database file and the
\* construction of the storage engine and of the processor.  The first that
\* raises sends main to its except branch; the file is removed only when the
\* two calls before it succeeded.
IniciarMain ==
    /\ entrada.passo = "inicio"
    /\ IF \E i \in 1..Len(PassosDeInicio) : PassosDeInicio[i] = entrada.falha
       THEN /\ RetornarMain(TRUE)
            /\ bd' = IF entrada.falha \in {"GerenciadorBancoDados", "ProcessadorXML"}
                     THEN BdVazio ELSE bd
       ELSE /\ entrada' = [entrada EXCEPT !.passo = "processar_diretorio"]
            /\ bd' = BdVazio
            /\ UNCHANGED << obtido, op >>
    /\ antes' = bd'
    /\ UNCHANGED << retorno, erros, col_desconhecida, escapou, sql_exec, ingestVars,
                    exportVars, layoutVars >>

\* processar_diretorio(configuracoes.CAMINHO_ENTRADA), file by file.
MainProcessarArquivo == entrada.passo = "processar_diretorio" /\ ProcessarArquivo

MainConcluirDiretorio == entrada.passo = "processar_diretorio" /\ ConcluirDiretorio

\* ExportadorTemplatesEmpresa(gerenciador_bd, configuracoes), reached when
\* processar_diretorio has returned; an exception of either ends main.
ConstruirExportador ==
    /\ entrada.passo = "processar_diretorio"
    /\ op = "processar_diretorio"
    /\ IF escapou \/ entrada.falha = "ExportadorTemplatesEmpresa"
       THEN /\ RetornarMain(TRUE)
            /\ UNCHANGED exportVars
       ELSE /\ entrada' = [entrada EXCEPT !.passo = "exportar_todos_templates"]
            /\ pendentes' = [exportador |-> "templates_empresa",
                             nomes |-> TemplatesDaExecucao("templates_empresa")]
            /\ saida' = [nome \in {TemplatesDaExecucao("templates_empresa")[i] :
                                     i \in 1..Len(TemplatesDaExecucao("templates_empresa"))} |-> Ausente]
            /\ tentados' = << >>
            /\ ult_export' = [nome |-> "nenhum", erros |-> 0]
            /\ templates_processados' = 0
            /\ UNCHANGED << obtido, op >>
    /\ UNCHANGED << bd, antes, retorno, erros, col_desconhecida, escapou, sql_exec,
                    ingestVars, layoutVars >>

\* exportar_todos_templates(), template by template, with the template
\* directory of a fresh installation (no template file).
MainExportarTemplate ==
    /\ entrada.passo = "exportar_todos_templates"
    /\ ExportarTemplateDoBanco
    /\ ult_export'.cenario.primeira_linha = "sem_arquivo"

MainConcluirExportacao == entrada.passo = "exportar_todos_templates" /\ ConcluirExportacao

\* The end of the try block, or its except branch if the export raised.
ConcluirMain ==
    /\ entrada.passo = "exportar_todos_templates"
    /\ op = "exportacao_concluida"
    /\ RetornarMain(escapou)
    /\ UNCHANGED << bd, antes, retorno, erros, col_desconhecida, escapou, sql_exec,
                    ingestVars, exportVars, layoutVars >>

NextMain ==
    \/ IniciarMain
    \/ MainProcessarArquivo
    \/ MainConcluirDiretorio
    \/ ConstruirExportador
    \/ MainExportarTemplate
    \/ MainConcluirExportacao
    \/ ConcluirMain

InitSpecMain == InitMain /\ InitExport /\ InitLayout

SpecMain == InitSpecMain /\ [][NextMain]_vars

(***************************************************************************)
(* Python values: strings are sequences of characters                      *)
(***************************************************************************)
PyNone     == [tipo |-> "none", v |-> << >>]
PyStr(s)   == [tipo |-> "str", v |-> s]
PyDict(d)  == [tipo |-> "dict", v |-> d]
PyList(q)  == [tipo |-> "list", v |-> q]

\* Characters str.strip() removes.
EhEspaco(c) == c \in {" ", "\t", "\n"}

RECURSIVE str_lstrip(_)
str_lstrip(s) ==
    IF s # << >> /\ EhEspaco(Head(s)) THEN str_lstrip(Tail(s)) ELSE s

RECURSIVE str_rstrip(_)
str_rstrip(s) ==
    IF s # << >> /\ EhEspaco(s[Len(s)])
    THEN str_rstrip(SubSeq(s, 1, Len(s) - 1))
    ELSE s

\* s.strip()
str_strip(s) == str_rstrip(str_lstrip(s))

(***************************************************************************)
(* Tree building: ProcessadorXML._elemento_para_dict                       *)
(***************************************************************************)
MaxElem == 4      \* most elements of a subtree handed to _elemento_para_dict

\* Local tags of the child elements, and the attribute sets of an element:
\* none, an Id, and an attribute named like a child tag.
TagsFilho == {"dependente", "tpDep"}
AtributosModelo ==
    {<< >>, [Id |-> << "I", "D" >>], [tpDep |-> << "0", "1" >>]}

\* elem.text: None, blank, text with blanks around it.
TextosModelo == {PyNone, PyStr(<< " " >>), PyStr(<< " ", "x", "\n" >>)}

\* result[chave] = valor
Atribuir(result, chave, valor) ==
    [k \in DOMAIN result \cup {chave} |-> IF k = chave THEN valor ELSE result[k]]

\* result[tag] = child_dict, or the promotion of result[tag] to a list.
InserirFilho(result, tag, child_dict) ==
    IF tag \in DOMAIN result
    THEN LET lista == IF result[tag].tipo = "list" THEN result[tag].v
                      ELSE << result[tag] >>
         IN [result EXCEPT ![tag] = PyList(Append(lista, child_dict))]
    ELSE Atribuir(result, tag, child_dict)

\* result.update(elem.attrib) followed by the _text entry.
AtributosETexto(elem) ==
    LET attrs == [k \in DOMAIN elem.attrib |-> PyStr(elem.attrib[k])]
    IN IF elem.text # PyNone /\ str_strip(elem.text.v) # << >>
       THEN Atribuir(attrs, "_text", PyStr(str_strip(elem.text.v)))
       ELSE attrs

\* _elemento_para_dict(elem); FilhosLoop is its loop over the children.
RECURSIVE elemento_para_dict(_)
RECURSIVE FilhosLoop(_, _)
FilhosLoop(result, filhos) ==
    IF filhos = << >> THEN result
    ELSE FilhosLoop(InserirFilho(result, NomeLocal(Head(filhos)),
                                 elemento_para_dict(Head(filhos))),
                    Tail(filhos))
elemento_para_dict(elem) ==
    PyDict(FilhosLoop(AtributosETexto(elem), elem.filhos))

\* The elements handed in: every ordered tree of at most MaxElem elements.
\* The root's own tag is not read; below the root an element has no
\* attribute or one named like a child tag, and no text or some text.
RECURSIVE SubElementos(_)
RECURSIVE FlorestasElem(_)
SubElementos(n) ==
    IF n <= 0 THEN {}
    ELSE {[ns |-> NsAdm, local |-> tg, attrib |-> a, text |-> tx, filhos |-> f] :
            tg \in TagsFilho, a \in {<< >>, [tpDep |-> << "0", "1" >>]},
            tx \in {PyNone, PyStr(<< " ", "x", "\n" >>)},
            f \in FlorestasElem(n - 1)}
FlorestasElem(m) ==
    IF m = 0 THEN {<< >>}
    ELSE UNION {{<< a >> \o f : a \in SubElementos(k), f \in FlorestasElem(m - k)} : k \in 1..m}

InitElemento ==
    /\ \E n \in 1..MaxElem, a \in AtributosModelo, tx \in TextosModelo :
          \E f \in FlorestasElem(n - 1) :
              entrada = [fase |-> "chamada",
                         elem |-> [ns |-> NsAdm, local |-> "evtAdmissao", attrib |-> a,
                                   text |-> tx, filhos |-> f]]
    /\ obtido = PyNone

ElementoParaDict ==
    /\ entrada.fase = "chamada"
    /\ entrada' = [entrada EXCEPT !.fase = "retornou"]
    /\ obtido' = elemento_para_dict(entrada.elem)
    /\ UNCHANGED << bdVars, ingestVars, exportVars, layoutVars >>

InitSpecTree == InitBd /\ InitIngest /\ InitExport /\ InitLayout /\ InitElemento

SpecTree == InitSpecTree /\ [][ElementoParaDict]_vars

(***************************************************************************)
(* Field resolution: MapeadorCamposEmpresa.obter_valor_campo and the two   *)
(* callers that complete it in ExportadorTemplatesEmpresa                  *)
(***************************************************************************)
MaxAlternativos == 2   \* most entries of caminho_json_alternativos

\* A str holding the JSON text of a tree (json.dumps of it), a str that is
\* not JSON, and the empty str.
JsonStr(arvore) == [tipo |-> "json", v |-> arvore]
JsonInvalido    == [tipo |-> "json_invalido", v |-> << >>]
StrVazia        == PyStr(<< >>)

\* bool(x) is False
Falsy(x) ==
    \/ x = PyNone
    \/ x.tipo = "str" /\ x.v = << >>
    \/ x.tipo = "dict" /\ DOMAIN x.v = {}
    \/ x.tipo = "list" /\ x.v = << >>

\* isinstance(x, str)
EhStr(x) == x.tipo \in {"str", "json", "json_invalido"}

\* d.get(chave) on a dict held as a function
DictGet(d, chave) == IF chave \in DOMAIN d THEN d[chave] ELSE PyNone

\* The keys of the tree the paths of a definition end in, the paths, and
\* the text stored under a key.
ChaveAlt(i) == CASE i = 1 -> "a1" [] i = 2 -> "a2" [] i = 3 -> "a3" [] OTHER -> "a4"
ChavesCaminho == {"p"} \cup {ChaveAlt(i) : i \in 1..MaxAlternativos}
CaminhoDe(chave) == << "evt", chave >>
ValorDe(chave) == PyStr(<< "v", chave >>)

\* What a key of the tree holds: null, a blank string, a string, or a
\* mapping with the text under _text.
Terminal(chave, k) ==
    CASE k = 1 -> PyNone
      [] k = 2 -> PyStr(<< " " >>)
      [] k = 3 -> ValorDe(chave)
      [] OTHER -> PyDict([_text |-> ValorDe(chave)])

\* The trees of the records: {"evt": {...}} with any of the keys present.
ArvoresRegistro ==
    UNION {{PyDict([evt |-> PyDict([ch \in S |-> Terminal(ch, f[ch])])]) :
               f \in [S -> 1..4]} : S \in SUBSET ChavesCaminho}

\* registro['json_data']: the column is NULL, holds text that is not JSON,
\* or holds the serialized tree.
JsonDatas == {PyNone, JsonInvalido} \cup {JsonStr(a) : a \in ArvoresRegistro}

\* The record read from the table: json_data, the flat column the field
\* definitions name as origin (absent, NULL, empty, blank or filled) and,
\* possibly, a key equal to the template column's label.
ColunaOrigem == "cnpj_empregador"
Rotulo == "1 - CNPJ"
Falta == [tipo |-> "falta", v |-> << >>]     \* the key is not in the record
ValoresColuna == {Falta, PyNone, StrVazia, PyStr(<< " " >>), PyStr(<< "c" >>)}
ValoresRotulo == {Falta, PyStr(<< "r" >>)}
MontarRegistro(j, c, r) ==
    LET chaves == {"json_data"} \cup (IF c = Falta THEN {} ELSE {ColunaOrigem})
                               \cup (IF r = Falta THEN {} ELSE {Rotulo})
    IN [k \in chaves |-> IF k = "json_data" THEN j ELSE IF k = ColunaOrigem THEN c ELSE r]
RegistrosBd ==
    {MontarRegistro(j, c, r) : j \in JsonDatas, c \in ValoresColuna, r \in ValoresRotulo}

\* The field definitions: origin json_data or the flat column, with or
\* without caminho_json, with the first n alternative paths, with or
\* without valor_padrao.
ValorPadrao == PyStr(<< "d" >>)
MontarDefinicao(origem, principal, n, padrao) ==
    LET chaves == {"origem"} \cup (IF principal THEN {"caminho_json"} ELSE {})
                             \cup (IF n > 0 THEN {"caminho_json_alternativos"} ELSE {})
                             \cup (IF padrao THEN {"valor_padrao"} ELSE {})
    IN [k \in chaves |->
          CASE k = "origem" -> origem
            [] k = "caminho_json" -> CaminhoDe("p")
            [] k = "caminho_json_alternativos" -> [i \in 1..n |-> CaminhoDe(ChaveAlt(i))]
            [] OTHER -> ValorPadrao]
Definicoes ==
    {MontarDefinicao(o, p, n, d) : o \in {"json_data", ColunaOrigem}, p \in BOOLEAN,
                                   n \in 0..MaxAlternativos, d \in BOOLEAN}

\* The loop of _extrair_valor_json over the keys of the path; NaoDict when
\* a key is missing or the value reached is not a dict.
RECURSIVE Percorrer(_, _)
Percorrer(dados, caminho) ==
    IF caminho = << >> THEN dados
    ELSE IF dados.tipo = "dict" /\ Head(caminho) \in DOMAIN dados.v
         THEN Percorrer(dados.v[Head(caminho)], Tail(caminho))
         ELSE NaoDict

\* The value a dict of one entry holds.
UnicoValor(d) == d[CHOOSE k \in DOMAIN d : TRUE]

\* _extrair_valor_json(json_data, caminho)
extrair_valor_json(json_data, caminho) ==
    IF Falsy(json_data) \/ caminho = << >> THEN PyNone
    ELSE IF json_data.tipo = "json_invalido" THEN PyNone
    ELSE LET dados == Percorrer(IF json_data.tipo = "json" THEN json_data.v ELSE json_data,
                                caminho)
         IN IF dados = NaoDict THEN PyNone
            ELSE IF dados.tipo = "dict"
                 THEN IF "_text" \in DOMAIN dados.v THEN dados.v["_text"]
                      ELSE IF Cardinality(DOMAIN dados.v) = 1 THEN UnicoValor(dados.v)
                      ELSE PyNone
                 ELSE dados

\* The test of _extrair_valor_json_com_alternativos and of
\* _gerar_dados_template for a value that does not end the chain.
NaoPreenchido(valor) ==
    valor = PyNone \/ (EhStr(valor) /\ str_strip(valor.v) = << >>)

\* The paths of a definition: caminho_json first, then the alternatives.
Caminhos(definicao_campo) ==
    (IF "caminho_json" \in DOMAIN definicao_campo
     THEN << definicao_campo["caminho_json"] >> ELSE << >>)
    \o (IF "caminho_json_alternativos" \in DOMAIN definicao_campo
        THEN definicao_campo["caminho_json_alternativos"] ELSE << >>)

\* The loop over the paths that returns at the first path, filled or not.
CaminhosLoopSoPrimeiro(json_data, caminhos, definicao_campo) ==
    IF caminhos = << >> THEN DictGet(definicao_campo, "valor_padrao")
    ELSE IF ~NaoPreenchido(extrair_valor_json(json_data, Head(caminhos)))
         THEN extrair_valor_json(json_data, Head(caminhos))
         ELSE DictGet(definicao_campo, "valor_padrao")

\* The loop over the paths of _extrair_valor_json_com_alternativos.
RECURSIVE CaminhosLoop(_, _, _)
CaminhosLoop(json_data, caminhos, definicao_campo) ==
    IF caminhos = << >> THEN DictGet(definicao_campo, "valor_padrao")
    ELSE IF ~NaoPreenchido(extrair_valor_json(json_data, Head(caminhos)))
         THEN extrair_valor_json(json_data, Head(caminhos))
         ELSE CaminhosLoop(json_data, Tail(caminhos), definicao_campo)

\* _extrair_valor_json_com_alternativos(json_data, definicao_campo)
extrair_valor_json_com_alternativos(json_data, definicao_campo) ==
    CaminhosLoop(json_data, Caminhos(definicao_campo), definicao_campo)

\* obter_valor_campo(template, campo, registro_bd), for a field the
\* template maps to definicao_campo (NaoDict: the template has no such field).
obter_valor_campo(definicao_campo, registro_bd) ==
    IF definicao_campo = NaoDict THEN PyNone       \* campo not in the mapping
    ELSE IF definicao_campo["origem"] = "json_data"
    THEN extrair_valor_json_com_alternativos(
             IF Falsy(DictGet(registro_bd, "json_data")) THEN StrVazia
             ELSE registro_bd["json_data"],
             definicao_campo)
    ELSE DictGet(registro_bd, definicao_campo["origem"])

\* json.loads of the json_data column in _gerar_dados_template: {} when the
\* text is not JSON, the value itself when it is not a str.
JsonDataCarregado(registro) ==
    LET json_str == registro["json_data"]
    IN IF json_str.tipo = "json" THEN json_str.v
       ELSE IF json_str.tipo = "json_invalido" THEN PyDict(<< >>)
       ELSE json_str

\* One cell of _gerar_dados_template: linha[coluna] for one record.
gerar_dados_template(definicao_campo, registro) ==
    LET valor == obter_valor_campo(definicao_campo, registro)
        final == IF NaoPreenchido(valor)
                 THEN extrair_valor_json_com_alternativos(JsonDataCarregado(registro),
                                                          definicao_campo)
                 ELSE valor
    IN IF final # PyNone THEN final ELSE StrVazia

\* valor not in (None, "")
ForaDeNoneEVazia(valor) == valor # PyNone /\ valor # StrVazia

\* _extrair_valor_prioritario(registro, coluna, chave_template), for a
\* column the template maps to definicao_campo.
extrair_valor_prioritario(registro, coluna, definicao_campo) ==
    IF coluna \in DOMAIN registro /\ ForaDeNoneEVazia(registro[coluna])
    THEN registro[coluna]
    ELSE IF ForaDeNoneEVazia(obter_valor_campo(definicao_campo, registro))
         THEN obter_valor_campo(definicao_campo, registro)
         ELSE IF "valor_padrao" \in DOMAIN definicao_campo
              THEN definicao_campo["valor_padrao"] ELSE StrVazia

InitResolucao ==
    /\ \E d \in Definicoes, r \in RegistrosBd :
          entrada = [fase |-> "chamada", por |-> "ninguem",
                     definicao |-> d, registro |-> r]
    /\ obtido = PyNone

ObterValorCampo ==
    /\ entrada.fase = "chamada"
    /\ entrada' = [entrada EXCEPT !.fase = "retornou", !.por = "obter_valor_campo"]
    /\ obtido' = obter_valor_campo(entrada.definicao, entrada.registro)
    /\ UNCHANGED << bdVars, ingestVars, exportVars, layoutVars >>

GerarDadosTemplate ==
    /\ entrada.fase = "chamada"
    /\ entrada' = [entrada EXCEPT !.fase = "retornou", !.por = "_gerar_dados_template"]
    /\ obtido' = gerar_dados_template(entrada.definicao, entrada.registro)
    /\ UNCHANGED << bdVars, ingestVars, exportVars, layoutVars >>

ExtrairValorPrioritario ==
    /\ entrada.fase = "chamada"
    /\ entrada' = [entrada EXCEPT !.fase = "retornou", !.por = "_extrair_valor_prioritario"]
    /\ obtido' = extrair_valor_prioritario(entrada.registro, Rotulo, entrada.definicao)
    /\ UNCHANGED << bdVars, ingestVars, exportVars, layoutVars >>

NextResolucao == ObterValorCampo \/ GerarDadosTemplate \/ ExtrairValorPrioritario

InitSpecResolucao == InitBd /\ InitIngest /\ InitExport /\ InitLayout /\ InitResolucao

SpecResolucao == InitSpecResolucao /\ [][NextResolucao]_vars

(***************************************************************************)
(* Collection extraction: _extrair_array_para_template with                *)
(* MapeadorCamposEmpresa.extrair_dependentes as metodo_extracao            *)
(***************************************************************************)
MaxItens == 2     \* most items of one record's collection
MaxPais  == 2     \* most records handed to one extraction

\* The labels extrair_dependentes writes into an item and the template
\* columns asked for; the remaining labels of an item are filled like the
\* name.
RotuloEmpregador == "1 A-ID do empregador"
RotuloCpf        == "2 B-CPF trabalhador"
RotuloNome       == "3 C-Nome dependente"
ColunasDependente == << RotuloEmpregador, RotuloNome >>

\* The template maps the first column to a flat column of the record and
\* has no entry for the second.
DefinicaoDaColuna(coluna) ==
    IF coluna = RotuloEmpregador
    THEN [origem |-> ColunaOrigem, valor_padrao |-> StrVazia]
    ELSE NaoDict

\* The paths extrair_dependentes tries, in its order.
caminhos_empregador ==
    << << "evtAdmissao", "ideEmpregador", "nrInsc" >>,
       << "evtAltCadastral", "ideEmpregador", "nrInsc" >>,
       << "evtAltContratual", "ideEmpregador", "nrInsc" >>,
       << "ideEmpregador", "nrInsc" >> >>
caminhos_trabalhador ==
    << << "evtAdmissao", "trabalhador", "cpfTrab" >>,
       << "evtAltCadastral", "ideTrabalhador", "cpfTrab" >>,
       << "evtAltContratual", "ideTrabalhador", "cpfTrab" >>,
       << "ideTrabalhador", "cpfTrab" >> >>
caminhos_dependentes ==
    << << "evtAltCadastral", "alteracao", "dadosTrabalhador", "dependente" >>,
       << "evtAdmissao", "trabalhador", "dependente" >>,
       << "evtAltContratual", "alteracao", "dadosTrabalhador", "dependente" >>,
       << "trabalhador", "dependente" >>,
       << "alteracao", "dadosTrabalhador", "dependente" >> >>

\* The loops over caminhos_empregador and caminhos_trabalhador: the first
\* path whose value is a filled string (or a mapping with _text), else "".
RECURSIVE PrimeiroTexto(_, _)
PrimeiroTexto(dados, caminhos) ==
    IF caminhos = << >> THEN StrVazia
    ELSE LET valor == extrair_valor_json(dados, Head(caminhos))
         IN IF ~Falsy(valor) /\ valor.tipo = "dict" /\ "_text" \in DOMAIN valor.v
            THEN valor.v["_text"]
            ELSE IF ~Falsy(valor) /\ valor.tipo = "str" THEN valor
            ELSE PrimeiroTexto(dados, Tail(caminhos))

\* _extrair_texto_json(objeto, chave)
extrair_texto_json(objeto, chave) ==
    IF Falsy(objeto) \/ objeto.tipo # "dict" THEN StrVazia
    ELSE IF chave \in DOMAIN objeto.v /\ objeto.v[chave].tipo = "dict"
            /\ "_text" \in DOMAIN objeto.v[chave].v
         THEN objeto.v[chave].v["_text"]
         ELSE IF chave \in DOMAIN objeto.v /\ objeto.v[chave].tipo = "str"
              THEN objeto.v[chave]
              ELSE StrVazia

\* dep_dict of extrair_dependentes
dep_dict(dep, cnpj_empregador, cpf_trabalhador) ==
    [k \in {RotuloEmpregador, RotuloCpf, RotuloNome} |->
        IF k = RotuloEmpregador THEN cnpj_empregador
        ELSE IF k = RotuloCpf THEN cpf_trabalhador
        ELSE extrair_texto_json(dep, "nmDep")]

\* The value found at a path as a list: a mapping becomes a list of one.
ComoLista(atual) ==
    IF atual = NaoDict THEN << >>
    ELSE IF Falsy(atual) THEN << >>
    ELSE IF atual.tipo = "dict" THEN << atual >>
    ELSE IF atual.tipo = "list" THEN atual.v
    ELSE << >>

\* Only the first entry of a collection is turned into an item.
ItensDaListaSoPrimeiro(lista, cnpj_empregador, cpf_trabalhador) ==
    IF lista = << >> THEN << >>
    ELSE IF Falsy(dep_dict(lista[1], cnpj_empregador, cpf_trabalhador)[RotuloNome])
         THEN << >>
         ELSE << dep_dict(lista[1], cnpj_empregador, cpf_trabalhador) >>

\* 'for dep in atual': the items of the entries that have a name.
RECURSIVE ItensDaLista(_, _, _)
ItensDaLista(lista, cnpj_empregador, cpf_trabalhador) ==
    IF lista = << >> THEN << >>
    ELSE IF Falsy(dep_dict(Head(lista), cnpj_empregador, cpf_trabalhador)[RotuloNome])
         THEN ItensDaLista(Tail(lista), cnpj_empregador, cpf_trabalhador)
         ELSE << dep_dict(Head(lista), cnpj_empregador, cpf_trabalhador) >>
              \o ItensDaLista(Tail(lista), cnpj_empregador, cpf_trabalhador)

\* The loop over caminhos_dependentes: it stops at the first path that gave
\* items.
RECURSIVE DependentesLoop(_, _, _, _)
DependentesLoop(dados, caminhos, cnpj_empregador, cpf_trabalhador) ==
    IF caminhos = << >> THEN << >>
    ELSE IF ItensDaLista(ComoLista(Percorrer(dados, Head(caminhos))),
                         cnpj_empregador, cpf_trabalhador) # << >>
         THEN ItensDaLista(ComoLista(Percorrer(dados, Head(caminhos))),
                           cnpj_empregador, cpf_trabalhador)
         ELSE DependentesLoop(dados, Tail(caminhos), cnpj_empregador, cpf_trabalhador)

\* extrair_dependentes(json_data): text that is not JSON raises inside the
\* try and leaves the empty list.
extrair_dependentes(json_data) ==
    IF json_data.tipo # "json" THEN << >>
    ELSE DependentesLoop(json_data.v, caminhos_dependentes,
                         PrimeiroTexto(json_data.v, caminhos_empregador),
                         PrimeiroTexto(json_data.v, caminhos_trabalhador))

\* registro_completo = dict(registro); registro_completo.update(item)
Atualizado(registro, item) ==
    [k \in DOMAIN registro \cup DOMAIN item |->
        IF k \in DOMAIN item THEN item[k] ELSE registro[k]]

\* reg_map: one output row, every column through _extrair_valor_prioritario.
reg_map(registro) ==
    [coluna \in {ColunasDependente[i] : i \in 1..Len(ColunasDependente)} |->
        extrair_valor_prioritario(registro, coluna, DefinicaoDaColuna(coluna))]

\* A record without items gives no row.
LinhasDoRegistroSemPai(registro, itens) ==
    [i \in 1..Len(itens) |-> reg_map(Atualizado(registro, itens[i]))]

\* The rows one record adds to dados_filtrados.
LinhasDoRegistro(registro, itens) ==
    IF itens = << >> THEN << reg_map(registro) >>
    ELSE [i \in 1..Len(itens) |-> reg_map(Atualizado(registro, itens[i]))]

\* itens of one record: metodo_extracao runs only on a json_str that is
\* not None or empty.
ItensDoRegistro(registro) ==
    IF Falsy(DictGet(registro, "json_data")) THEN << >>
    ELSE extrair_dependentes(registro["json_data"])

\* _extrair_array_para_template(dados, colunas, chave_template,
\* metodo_extracao, array_nome_log): the rows of each record, record by record.
extrair_array_por_registro(dados) ==
    [i \in 1..Len(dados) |-> LinhasDoRegistro(dados[i], ItensDoRegistro(dados[i]))]

RECURSIVE Concatenar(_)
Concatenar(listas) ==
    IF listas = << >> THEN << >> ELSE Head(listas) \o Concatenar(Tail(listas))

extrair_array_para_template(dados) == Concatenar(extrair_array_por_registro(dados))

\* The entries of a collection: a dependant named A, one named B (name as
\* a plain string), and one whose nmDep element is empty.
Dependentes ==
    {PyDict([nmDep |-> PyDict([_text |-> PyStr(<< "A" >>)])]),
     PyDict([nmDep |-> PyStr(<< "B" >>)]),
     PyDict([nmDep |-> PyDict(<< >>)])}

\* What the tree holds at trabalhador/dependente: nothing, one mapping, or
\* a list of two to MaxItens mappings (the tree builder makes no shorter list).
Colecoes ==
    {Falta} \cup Dependentes
    \cup UNION {{PyList(q) : q \in [1..n -> Dependentes]} : n \in 2..MaxItens}

\* The tree of an admission: the employer's number, the worker's CPF and
\* the collection.
ArvoreAdmissao(colecao) ==
    LET trabalhador == IF colecao = Falta
                       THEN PyDict([cpfTrab |-> PyDict([_text |-> PyStr(<< "t" >>)])])
                       ELSE PyDict([cpfTrab |-> PyDict([_text |-> PyStr(<< "t" >>)]),
                                    dependente |-> colecao])
    IN PyDict([evtAdmissao |-> PyDict([
           ideEmpregador |-> PyDict([nrInsc |-> PyDict([_text |-> PyStr(<< "e" >>)])]),
           trabalhador |-> trabalhador])])

\* The records read from the table: the flat column filled and json_data
\* NULL, not JSON, or a serialized admission.
RegistrosPai ==
    {MontarRegistro(j, PyStr(<< "c" >>), Falta) :
        j \in {PyNone, JsonInvalido}
              \cup {JsonStr(ArvoreAdmissao(c)) : c \in Colecoes}}

InitColecao ==
    /\ \E n \in 1..MaxPais : \E dados \in [1..n -> RegistrosPai] :
          entrada = [fase |-> "chamada", dados |-> dados]
    /\ obtido = PyNone

ExtrairArrayParaTemplate ==
    /\ entrada.fase = "chamada"
    /\ entrada' = [entrada EXCEPT !.fase = "retornou"]
    /\ obtido' = [dados_filtrados |-> extrair_array_para_template(entrada.dados),
                  por_registro |-> extrair_array_por_registro(entrada.dados)]
    /\ UNCHANGED << bdVars, ingestVars, exportVars, layoutVars >>

InitSpecColecao == InitBd /\ InitIngest /\ InitExport /\ InitLayout /\ InitColecao

SpecColecao == InitSpecColecao /\ [][ExtrairArrayParaTemplate]_vars

(***************************************************************************)
(* Dates and numbers as text: formatar_data_br, formatar_numero_br and the *)
(* float() and format() calls they rest on                                 *)
(***************************************************************************)
Digitos == {"0", "1", "2", "3", "4", "5", "6", "7", "8", "9"}

\* int(c) of one digit
ValorDigito(c) ==
    CASE c = "0" -> 0 [] c = "1" -> 1 [] c = "2" -> 2 [] c = "3" -> 3 [] c = "4" -> 4
      [] c = "5" -> 5 [] c = "6" -> 6 [] c = "7" -> 7 [] c = "8" -> 8 [] OTHER -> 9

\* str(n) of one digit
DigitoDe(n) ==
    CASE n = 0 -> "0" [] n = 1 -> "1" [] n = 2 -> "2" [] n = 3 -> "3" [] n = 4 -> "4"
      [] n = 5 -> "5" [] n = 6 -> "6" [] n = 7 -> "7" [] n = 8 -> "8" [] OTHER -> "9"

\* s.count(c), s.replace(de, para) and s.replace(c, '') for one character,
\* s.split(c)[0]
Contar(s, c) == Cardinality({i \in 1..Len(s) : s[i] = c})
Substituir(s, de, para) == [i \in 1..Len(s) |-> IF s[i] = de THEN para ELSE s[i]]
Remover(s, c) == SelectSeq(s, LAMBDA x : x # c)
AntesDe(s, c) ==
    IF Contar(s, c) = 0 THEN s
    ELSE SubSeq(s, 1, (CHOOSE i \in 1..Len(s) : s[i] = c /\ \A k \in 1..(i - 1) : s[k] # c) - 1)
DepoisDe(s, c) ==
    IF Contar(s, c) = 0 THEN << >>
    ELSE SubSeq(s, (CHOOSE i \in 1..Len(s) : s[i] = c /\ \A k \in 1..(i - 1) : s[k] # c) + 1, Len(s))

SoDigitos(s) == \A i \in 1..Len(s) : s[i] \in Digitos

\* float(s) does not raise, for text made of digits, '.', ',', '-' and blanks:
\* an optional sign, digits with at most one point, at least one digit.
SemSinal(s) == IF s # << >> /\ s[1] = "-" THEN Tail(s) ELSE s
EhLiteralFloat(s) ==
    LET corpo == SemSinal(str_strip(s))
    IN /\ \A i \in 1..Len(corpo) : corpo[i] \in Digitos \cup {"."}
       /\ Contar(corpo, ".") <= 1
       /\ \E i \in 1..Len(corpo) : corpo[i] \in Digitos

\* Digits without the leading zeros, and without the trailing zeros.
RECURSIVE SemZerosAEsquerda(_)
SemZerosAEsquerda(d) ==
    IF d # << >> /\ Head(d) = "0" THEN SemZerosAEsquerda(Tail(d)) ELSE d
RECURSIVE SemZerosADireita(_)
SemZerosADireita(d) ==
    IF d # << >> /\ d[Len(d)] = "0" THEN SemZerosADireita(SubSeq(d, 1, Len(d) - 1)) ELSE d

\* The float of a literal, kept as its decimal digits: the value of two
\* literals is equal exactly when these records are.
Float(s) ==
    LET corpo == SemSinal(str_strip(s))
        int  == SemZerosAEsquerda(AntesDe(corpo, "."))
        frac == SemZerosADireita(DepoisDe(corpo, "."))
    IN [neg |-> str_strip(s)[1] = "-" /\ (int # << >> \/ frac # << >>),
        int |-> int, frac |-> frac]
Zero == [neg |-> FALSE, int |-> << >>, frac |-> << >>]     \* 0.0

\* digits + 1, with the carry
RECURSIVE MaisUm(_)
MaisUm(d) ==
    IF d = << >> THEN << "1" >>
    ELSE IF d[Len(d)] = "9" THEN MaisUm(SubSeq(d, 1, Len(d) - 1)) \o << "0" >>
    ELSE SubSeq(d, 1, Len(d) - 1) \o << DigitoDe(ValorDigito(d[Len(d)]) + 1) >>

\* f'{f:.2f}': two decimals, rounded on the third (no value drawn in the
\* model lies halfway between two results).
DuasCasas(f) ==
    LET frac2 == SubSeq(f.frac \o << "0", "0" >>, 1, 2)
        sobe  == Len(f.frac) > 2 /\ ValorDigito(f.frac[3]) >= 5
        todos == IF sobe THEN MaisUm(f.int \o frac2) ELSE f.int \o frac2
        int   == SemZerosAEsquerda(SubSeq(todos, 1, Len(todos) - 2))
    IN (IF f.neg THEN << "-" >> ELSE << >>)
       \o (IF int = << >> THEN << "0" >> ELSE int)
       \o << "." >> \o SubSeq(todos, Len(todos) - 1, Len(todos))

\* str(int(f)) of a float without decimals
Inteiro(f) ==
    (IF f.neg THEN << "-" >> ELSE << >>) \o (IF f.int = << >> THEN << "0" >> ELSE f.int)

\* re.match(r'^\d{4}-\d{2}-\d{2}', valor)
CasaData(s) ==
    /\ Len(s) >= 10
    /\ \A i \in {1, 2, 3, 4, 6, 7, 9, 10} : s[i] \in Digitos
    /\ s[5] = "-" /\ s[8] = "-"

\* re.match(r'^-?\d+\.\d+$', valor)
CasaNumero(s) ==
    /\ Contar(SemSinal(s), ".") = 1
    /\ AntesDe(SemSinal(s), ".") # << >> /\ SoDigitos(AntesDe(SemSinal(s), "."))
    /\ DepoisDe(SemSinal(s), ".") # << >> /\ SoDigitos(DepoisDe(SemSinal(s), "."))

\* datetime.strptime(s, '%Y-%m-%d') does not raise, for s of the shape
\* dddd-dd-dd.
DoisDigitos(s, i) == 10 * ValorDigito(s[i]) + ValorDigito(s[i + 1])
Ano(s) == 100 * DoisDigitos(s, 1) + DoisDigitos(s, 3)
DiasDoMes(ano, mes) ==
    IF mes \in {4, 6, 9, 11} THEN 30
    ELSE IF mes # 2 THEN 31
    ELSE IF ano % 4 = 0 /\ (ano % 100 # 0 \/ ano % 400 = 0) THEN 29 ELSE 28
EhDataValida(s) ==
    /\ Ano(s) >= 1
    /\ DoisDigitos(s, 6) \in 1..12
    /\ DoisDigitos(s, 9) \in 1..DiasDoMes(Ano(s), DoisDigitos(s, 6))

\* formatar_data_br(data_str), for a str
formatar_data_br(data_str) ==
    LET s == AntesDe(data_str, "T")
    IN IF data_str = << >> THEN data_str
       ELSE IF Len(s) = 10 /\ Contar(s, "-") = 2 /\ CasaData(s) /\ EhDataValida(s)
            THEN SubSeq(s, 9, 10) \o << "/" >> \o SubSeq(s, 6, 7) \o << "/" >> \o SubSeq(s, 1, 4)
            ELSE s

\* formatar_numero_br(valor), for a str
formatar_numero_br(valor) ==
    IF ~EhLiteralFloat(Substituir(valor, ",", ".")) THEN valor
    ELSE IF Float(Substituir(valor, ",", ".")).frac = << >>
         THEN Inteiro(Float(Substituir(valor, ",", ".")))
         ELSE Substituir(DuasCasas(Float(Substituir(valor, ",", "."))), ".", ",")

(***************************************************************************)
(* The lines of an export file: ExportadorTemplatesEmpresa.                *)
(* _salvar_template_csv seen as a function of the column list and the rows *)
(* (a row is a dict, here a function on the keys it carries; a line of the *)
(* file is the sequence of its cells, as csv reads it back).               *)
(***************************************************************************)
MaxColunas   == 2      \* columns of a template
MaxLinhasCsv == 2      \* rows handed to the writer

PyInt(n) == [tipo |-> "int", v |-> n]

\* str(n) of a natural number
RECURSIVE DigitosDe(_)
DigitosDe(n) == IF n < 10 THEN << DigitoDe(n) >> ELSE DigitosDe(n \div 10) \o << DigitoDe(n % 10) >>

\* registro.get(coluna, '')
RegistroGet(registro, coluna) ==
    IF coluna \in DOMAIN registro THEN registro[coluna] ELSE PyStr(<< >>)

\* The body of "for coluna in colunas" and what csv writes for the value:
\* a str that starts like a date goes through formatar_data_br, a number or a
\* str that looks like a fraction through formatar_numero_br, None is written
\* as the empty text.
Celula(registro, coluna) ==
    LET valor == RegistroGet(registro, coluna)
    IN IF valor.tipo = "str" /\ CasaData(valor.v) THEN formatar_data_br(valor.v)
       ELSE IF valor.tipo = "int" THEN DigitosDe(valor.v)
       ELSE IF valor.tipo = "str" /\ CasaNumero(valor.v) THEN formatar_numero_br(valor.v)
       ELSE IF valor = PyNone THEN << >>
       ELSE valor.v

\* A variant of the row writer that writes what the row carries, key by key,
\* instead of walking the column list.
registro_completo_chaves_do_registro(colunas, registro) ==
    LET RECURSIVE Em(_)
        Em(chaves) ==
            IF chaves = {} THEN << >>
            ELSE LET c == CHOOSE x \in chaves : TRUE
                 IN << Celula(registro, c) >> \o Em(chaves \ {c})
    IN Em(DOMAIN registro)

\* registro_completo and escritor.writerow(registro_completo)
registro_completo(colunas, registro) ==
    [i \in 1..Len(colunas) |-> Celula(registro, colunas[i])]

\* _criar_arquivo_vazio, as file content
arquivo_vazio(colunas) == [cabecalho |-> colunas, linhas |-> << >>]

\* _salvar_template_csv, as file content: without rows the header-only file;
\* without columns nothing is written; otherwise the header and one line per
\* row.
arquivo_csv(colunas, dados) ==
    IF dados = << >> THEN arquivo_vazio(colunas)
    ELSE IF colunas = << >> THEN [cabecalho |-> << >>, linhas |-> << >>]
    ELSE [cabecalho |-> colunas,
          linhas |-> [k \in 1..Len(dados) |-> registro_completo(colunas, dados[k])]]

\* The inputs: column lists over two names, in any order and with
\* repetition; rows that carry any of the keys A, B and Z (Z is in no column
\* list), A with None, a text or a date, B with a fraction or a number.
NomesColuna == {"A", "B"}
ListasDeColunas == UNION {[1..n -> NomesColuna] : n \in 0..MaxColunas}
DataIso == << "2", "0", "2", "0", "-", "0", "1", "-", "3", "1" >>
ValoresDaChave(chave) ==
    IF chave = "A" THEN {PyNone, PyStr(<< "a" >>), PyStr(DataIso)}
    ELSE IF chave = "B" THEN {PyStr(<< "1", ".", "5" >>), PyInt(7)}
    ELSE {PyStr(<< "z" >>)}
RegistrosCsv ==
    UNION {{r \in [chaves -> UNION {ValoresDaChave(c) : c \in chaves}] :
                    \A c \in chaves : r[c] \in ValoresDaChave(c)}
                : chaves \in SUBSET {"A", "B", "Z"}}

InitCsv ==
    /\ \E colunas \in ListasDeColunas :
       \E n \in 0..MaxLinhasCsv :
       \E dados \in [1..n -> RegistrosCsv] :
          entrada = [fase |-> "chamada", colunas |-> colunas, dados |-> dados]
    /\ obtido = PyNone

SalvarTemplateCsv ==
    /\ entrada.fase = "chamada"
    /\ entrada' = [entrada EXCEPT !.fase = "retornou"]
    /\ obtido' = arquivo_csv(entrada.colunas, entrada.dados)
    /\ UNCHANGED << bdVars, ingestVars, exportVars, layoutVars >>

InitSpecCsv == InitBd /\ InitIngest /\ InitExport /\ InitLayout /\ InitCsv

SpecCsv == InitSpecCsv /\ [][SalvarTemplateCsv]_vars

(***************************************************************************)
(* Display values: MapeadorCamposEmpresa.formatar_valor and                *)
(* _extrair_valor_numerico, as functions of a raw value.                   *)
(***************************************************************************)
MaxGrupos == 3      \* digit groups of a raw value

PyFloat(f) == [tipo |-> "float", v |-> f]

\* The raw values: None, a date, and the texts made of up to MaxGrupos digit
\* groups (possibly empty) with nothing, a point or a comma between them,
\* "1.234,56" among them.
Grupos == {<< >>, << "1" >>, << "2", "3", "4" >>, << "5", "6" >>}
Separadores == {<< >>, << "." >>, << "," >>}
RECURSIVE Textos(_)
Textos(n) ==
    IF n = 1 THEN Grupos
    ELSE {t \o s \o g : t \in Textos(n - 1), s \in Separadores, g \in Grupos}
ValoresBrutos == {PyNone, PyStr(DataIso)} \cup {PyStr(t) : t \in Textos(MaxGrupos)}

\* The field definitions: one per type the function tells apart, one of
\* another type and one without a type.
DefinicoesDeTipo ==
    {[tipo |-> t] : t \in {"string", "decimal", "data", "datetime", "inteiro"}}
    \cup {[origem |-> "json_data"]}

\* definicao_campo.get("tipo", "string")
TipoDe(definicao_campo) ==
    IF "tipo" \in DOMAIN definicao_campo THEN definicao_campo.tipo ELSE "string"

\* The decimal branch: float(str(valor).replace(",", ".")) and, unless it
\* raises, f"{f:.2f}".replace(".", ","); the raw value when it raises.
formatar_decimal(valor) ==
    IF EhLiteralFloat(Substituir(valor.v, ",", "."))
    THEN PyStr(Substituir(DuasCasas(Float(Substituir(valor.v, ",", "."))), ".", ","))
    ELSE valor

\* The data branch, for a text without '/': only '%Y-%m-%d' can match
\* valor.split("T")[0].
formatar_data(valor) ==
    LET s == AntesDe(valor.v, "T")
    IN IF valor.v # << >> /\ Len(s) = 10 /\ CasaData(s) /\ EhDataValida(s)
       THEN PyStr(SubSeq(s, 9, 10) \o << "/" >> \o SubSeq(s, 6, 7) \o << "/" >> \o SubSeq(s, 1, 4))
       ELSE valor

\* formatar_valor(valor, definicao_campo), for None and str. The datetime
\* branch needs a 'T' or a time of day to parse, which no raw value here has.
formatar_valor(valor, definicao_campo) ==
    IF valor = PyNone THEN PyNone
    ELSE IF TipoDe(definicao_campo) = "string" THEN valor
    ELSE IF TipoDe(definicao_campo) = "decimal" THEN formatar_decimal(valor)
    ELSE IF TipoDe(definicao_campo) = "data" THEN formatar_data(valor)
    ELSE valor

\* _extrair_valor_numerico(valor), for None and str: the digits, points and
\* commas of the value; with both marks the points go and the comma becomes
\* the point; with commas only, a single comma followed by at most two
\* characters becomes the point; 0.0 when the result is not a number.
valor_limpo(s) == SelectSeq(s, LAMBDA c : c \in Digitos \cup {".", ","})
ComMarcasTratadas(limpo) ==
    IF Contar(limpo, ",") > 0 /\ Contar(limpo, ".") > 0
    THEN Substituir(Remover(limpo, "."), ",", ".")
    ELSE IF Contar(limpo, ",") = 1 /\ Len(DepoisDe(limpo, ",")) <= 2
    THEN Substituir(limpo, ",", ".")
    ELSE limpo
extrair_valor_numerico(valor) ==
    IF valor = PyNone \/ valor.v = << >> THEN PyFloat(Zero)
    ELSE IF EhLiteralFloat(ComMarcasTratadas(valor_limpo(valor.v)))
    THEN PyFloat(Float(ComMarcasTratadas(valor_limpo(valor.v))))
    ELSE PyFloat(Zero)

InitValor ==
    /\ \E valor \in ValoresBrutos :
       \E definicao \in DefinicoesDeTipo :
          entrada = [fase |-> "chamada", por |-> "ninguem",
                     valor |-> valor, definicao |-> definicao]
    /\ obtido = PyNone

FormatarValor ==
    /\ entrada.fase = "chamada"
    /\ entrada' = [entrada EXCEPT !.fase = "retornou", !.por = "formatar_valor"]
    /\ obtido' = formatar_valor(entrada.valor, entrada.definicao)
    /\ UNCHANGED << bdVars, ingestVars, exportVars, layoutVars >>

ExtrairValorNumerico ==
    /\ entrada.fase = "chamada"
    /\ entrada' = [entrada EXCEPT !.fase = "retornou", !.por = "_extrair_valor_numerico"]
    /\ obtido' = extrair_valor_numerico(entrada.valor)
    /\ UNCHANGED << bdVars, ingestVars, exportVars, layoutVars >>

NextValor == FormatarValor \/ ExtrairValorNumerico

InitSpecValor == InitBd /\ InitIngest /\ InitExport /\ InitLayout /\ InitValor

SpecValor == InitSpecValor /\ [][NextValor]_vars

(***************************************************************************)
(* Claims about the storage engine (specification Spec)                    *)
(***************************************************************************)

\* C1: when a batch of one inserir_dados call fails, the whole call is rolled
\* back: the tables are as before the call, the call returns 0 and no
\* exception reaches the caller.
C1_LoteFalhoDesfazTudo ==
    (op = "inserir_dados" /\ erros > 0) =>
        (bd = antes /\ retorno = 0 /\ ~escapou)

\* C3: when the data of one inserir_dados call contains a column the table
\* does not have, nothing is written, stored rows are untouched and the call
\* returns 0.
C3_ColunaDesconhecidaFalhaFechada ==
    (op = "inserir_dados" /\ col_desconhecida) =>
        (bd = antes /\ retorno = 0)

\* C4: executar_query hands only read statements to the cursor and leaves
\* every table as it was.
C4_ConsultaSomenteLeitura ==
    op = "executar_query" =>
        /\ bd = antes
        /\ \A i \in 1..Len(sql_exec) : sql_exec[i] \in {"select", "pragma", "explain"}

\* C4 witness: a statement was refused (nothing reached the cursor) while
\* the tables hold rows it could have changed.
C4_Testemunha ==
    op = "executar_query" /\ sql_exec = << >> /\ TotalLinhas(bd) > 0

(***************************************************************************)
(* Claims about ingestion (specification SpecIngest)                       *)
(***************************************************************************)
\* The elements _processar_arquivo hands to a processor: the events of an
\* envelope, or the root of a single-event document.
ElementosDoArquivo(arquivo) ==
    IF arquivo.estado # "ok" THEN << >>
    ELSE IF arquivo.raiz.local = "eSocial" THEN arquivo.raiz.filhos
    ELSE << arquivo.raiz >>

EhEnvelope(arquivo) == arquivo.estado = "ok" /\ arquivo.raiz.local = "eSocial"

\* An event of a layout with an extractor whose extraction succeeds / raises.
Ingerivel(ev) ==
    ev.local \in {"evtAltContratual", "evtAltCadastral"} /\ ev.carga.extracao = "ok"
MapeamentoFalha(ev) ==
    ev.local \in {"evtAltContratual", "evtAltCadastral"} /\ ev.carga.extracao = "erro"

DocumentoFalho(arquivo) ==
    \/ arquivo.estado \in {"ausente", "pequeno", "malformado"}
    \/ \E i \in 1..Len(ElementosDoArquivo(arquivo)) :
           MapeamentoFalha(ElementosDoArquivo(arquivo)[i])

\* The value of the last ingestible S-2206 event of evs with key k.
UltimoValor(evs, k) ==
    LET S == {i \in 1..Len(evs) : Ingerivel(evs[i]) /\ evs[i].local = "evtAltContratual"
                                   /\ evs[i].carga.chave = k}
        u == CHOOSE i \in S : \A j \in S : j <= i
    IN evs[u].carga.valor

ChavesS2206(evs) ==
    {evs[i].carga.chave : i \in {j \in 1..Len(evs) :
        Ingerivel(evs[j]) /\ evs[j].local = "evtAltContratual"}}

LinhasComChave(linhas, k) == {i \in 1..Len(linhas) : linhas[i].chave = k}

\* C2: for the table that declares a uniqueness constraint (esocial_s2206),
\* ingesting the same document a second time leaves the number of stored
\* rows unchanged, and each row matching an incoming key holds the incoming
\* data value (one row per key).
C2_ReingestaoIdempotente ==
    (visitados > 0 /\ ultimo.repetido) =>
        /\ Len(bd["esocial_s2206"]) = Len(antes["esocial_s2206"])
        /\ \A k \in ChavesS2206(ElementosDoArquivo(ultimo.arquivo)) :
              /\ Cardinality(LinhasComChave(bd["esocial_s2206"], k)) = 1
              /\ \A i \in LinhasComChave(bd["esocial_s2206"], k) :
                    bd["esocial_s2206"][i].valor =
                        UltimoValor(ElementosDoArquivo(ultimo.arquivo), k)

\* C2 witness: a document with two values for one key was ingested twice in
\* a row, so the second ingestion rewrote the stored row.
C2_Testemunha ==
    /\ visitados = 2
    /\ ultimo.repetido
    /\ EhEnvelope(ultimo.arquivo)
    /\ ultimo.trace = << "ok", "ok" >>
    /\ ultimo.arquivo.raiz.filhos[1].local = "evtAltContratual"
    /\ ultimo.arquivo.raiz.filhos[2].local = "evtAltContratual"
    /\ ultimo.arquivo.raiz.filhos[1].carga.chave = ultimo.arquivo.raiz.filhos[2].carga.chave
    /\ ultimo.arquivo.raiz.filhos[1].carga.valor # ultimo.arquivo.raiz.filhos[2].carga.valor
    /\ Len(bd["esocial_s2206"]) = 1

\* C7: in a directory run no selected document is dropped (the run never
\* aborts: every selected document is visited), and a document that is
\* missing, too small, unparseable or whose field mapping fails increments
\* the error counter.
C7_FalhaNaoAbortaLote ==
    /\ visitados + fila.restantes = fila.total
    /\ ~escapou
    /\ (visitados > 0 /\ DocumentoFalho(ultimo.arquivo)) =>
           arquivos_com_erro > ultimo.com_erro_antes
    /\ op = "processar_diretorio" => visitados = fila.total

\* C7 witness: a run of two documents ended; the first failed and was
\* counted as an error, the second was still processed and ingested.
C7_Testemunha ==
    /\ op = "processar_diretorio"
    /\ fila.total = 2
    /\ visitados = 2
    /\ ultimo.com_erro_antes = 1
    /\ ultimo.resultado
    /\ arquivos_processados > 0
    /\ bd # BdVazio

\* C9: every event of an envelope is handled, in order, whatever happened to
\* the events before it (not identified, no registered extractor, extraction
\* failed): each event whose layout has an extractor and whose extraction
\* succeeds is ingested (its row is stored).
C9_EventosIndependentes ==
    (visitados > 0 /\ EhEnvelope(ultimo.arquivo)) =>
        LET evs == ultimo.arquivo.raiz.filhos
        IN /\ Len(ultimo.trace) = Len(evs)
           /\ \A i \in 1..Len(evs) : Ingerivel(evs[i]) => ultimo.trace[i] = "ok"
           /\ \A k \in ChavesS2206(evs) :
                 \E i \in LinhasComChave(bd["esocial_s2206"], k) :
                     bd["esocial_s2206"][i].valor = UltimoValor(evs, k)

\* C9 witness: the first event of an envelope failed its extraction, was not
\* identified or has no registered extractor, and the second event was
\* ingested.
C9_Testemunha ==
    /\ visitados > 0
    /\ EhEnvelope(ultimo.arquivo)
    /\ Len(ultimo.trace) = 2
    /\ ultimo.trace[1] \in {"falha", "nao_identificado", "nao_suportado"}
    /\ ultimo.trace[2] = "ok"
    /\ bd # antes

(***************************************************************************)
(* Claims about export (specification SpecExport)                          *)
(***************************************************************************)
SoCabecalho(colunas) == [existe |-> TRUE, linhas |-> << Cabecalho(colunas) >>]

\* C5: a template exported with zero rows available (no error, output
\* directory writable, columns configured) still has its output file, and
\* the file holds exactly one line, the header with the columns in order.
C5_ZeroLinhasArquivoSoCabecalho ==
    (/\ ult_export.nome # "nenhum"
     /\ ult_export.cenario.n = 0
     /\ ~ult_export.cenario.gerar_levanta
     /\ ult_export.cenario.abre
     /\ ult_export.colunas # << >>) =>
        saida[ult_export.nome] = SoCabecalho(ult_export.colunas)

\* C6: when the export of a template of the mandatory list fails with an
\* error (and the output directory is writable), the template's file exists
\* and its only line is the header with that template's columns.
C6_ErroArquivoSoCabecalho ==
    (/\ pendentes.exportador = "templates_empresa"
     /\ ult_export.nome # "nenhum"
     /\ ult_export.erro
     /\ ult_export.cenario.abre) =>
        saida[ult_export.nome] = SoCabecalho(ult_export.colunas)

\* C8: in a run of exportar_todos_templates no error leaves the loop and the
\* templates are attempted one by one in the order of the mandatory list,
\* none skipped, so that when the run ends every one of them was attempted.
C8_TodosTemplatesTentados ==
    pendentes.exportador = "templates_empresa" =>
        /\ ~escapou
        /\ tentados \o pendentes.nomes = TemplatesDaExecucao("templates_empresa")
        /\ op = "exportacao_concluida" =>
               tentados = TemplatesDaExecucao("templates_empresa")

\* C8 witness: a run ended in which the export of an earlier template raised
\* and the last template of the list was nevertheless exported.
C8_Testemunha ==
    /\ pendentes.exportador = "templates_empresa"
    /\ op = "exportacao_concluida"
    /\ ult_export.erros > 0
    /\ ~ult_export.erro
    /\ ult_export.contado
    /\ ult_export.nome = TemplatesDaExecucao("templates_empresa")[Len(tentados)]
    /\ saida[ult_export.nome].existe

(***************************************************************************)
(* Claims about layout identification (specification SpecLayout)           *)
(***************************************************************************)
\* The direct children of an element whose local tag is a known marker.
FilhosMarcadores(e) == {i \in 1..Len(e.filhos) : e.filhos[i].local \in Marcadores}

\* C10 as stated: whenever the namespace of the root names a known event
\* marker, the layout is the one of that marker, whatever the tags are.
C10_NamespaceDaRaizDecide ==
    (layout # "pendente" /\ MarcadorNoNamespace(doc.ns) # NULL) =>
        layout = ESOCIAL_EVENT_PATTERNS(MarcadorNoNamespace(doc.ns))

\* C10 amended: identification reads tags only, in a fixed order, and the
\* first match wins.  When the document has an envelope (its first eSocial
\* element in document order) with a direct child whose tag is a known
\* marker, the layout is the one of the first such child, whatever the
\* namespace of the root and the deeper descendants are.  A document with
\* no envelope whose root tag is a known marker has that marker's layout.
C10_PrimeiroFilhoDoEnvelopeDecide ==
    layout # "pendente" =>
        LET env == encontrar_primeiro_esocial(doc)
        IN /\ (env # Nenhum /\ FilhosMarcadores(env) # {}) =>
                 \E i \in FilhosMarcadores(env) :
                    /\ \A j \in FilhosMarcadores(env) : i <= j
                    /\ layout = ESOCIAL_EVENT_PATTERNS(env.filhos[i].local)
           /\ (env = Nenhum /\ doc.local \in Marcadores) =>
                 layout = ESOCIAL_EVENT_PATTERNS(doc.local)

\* C10 witness: the namespace of the root names evtAdmissao, the envelope's
\* first marker child is evtAltContratual, and S-2206 was returned.
C10_Testemunha ==
    /\ layout = "S-2206"
    /\ MarcadorNoNamespace(doc.ns) = "evtAdmissao"
    /\ doc.local = "eSocial"
    /\ Len(doc.filhos) > 0
    /\ doc.filhos[1].local = "evtAltContratual"

\* The local tags of the elements of a sequence of elements.
LocaisDe(els) == {els[i].local : i \in 1..Len(els)}

\* C11: a document whose envelope (its first eSocial element in document
\* order, root or not) has evtAdmissao below it, as a direct child or
\* deeper, and that holds no other known marker, is identified as S-2200.
C11_AdmissaoSobEnvelope ==
    layout # "pendente" =>
        LET env == encontrar_primeiro_esocial(doc)
        IN (/\ env # Nenhum
            /\ "evtAdmissao" \in LocaisDe(IterFilhos(env.filhos))
            /\ LocaisDe(Iter(doc)) \cap Marcadores = {"evtAdmissao"}) =>
               layout = "S-2200"

\* C11 witness: the envelope is not the root and evtAdmissao is not a
\* direct child of it; S-2200 was returned.
C11_Testemunha ==
    /\ layout = "S-2200"
    /\ doc.local = "ideEvento"
    /\ Len(doc.filhos) = 1
    /\ doc.filhos[1].local = "eSocial"
    /\ Len(doc.filhos[1].filhos) = 1
    /\ doc.filhos[1].filhos[1].local = "ideEvento"
    /\ Len(doc.filhos[1].filhos[1].filhos) = 1
    /\ doc.filhos[1].filhos[1].filhos[1].local = "evtAdmissao"

\* The same tree with every element moved to namespace ns.
RECURSIVE ComNamespace(_, _)
ComNamespace(el, ns) ==
    [ns |-> ns, local |-> el.local,
     filhos |-> [i \in 1..Len(el.filhos) |-> ComNamespace(el.filhos[i], ns)]]

\* C12: a document and any document that differs from it only in the
\* namespace URI (same local tags, same structure) get the same layout.
C12_IndependeDoNamespace ==
    layout # "pendente" =>
        \A ns \in Namespaces : identificar_layout(ComNamespace(doc, ns)) = layout

\* C12 witness: a document in the S-1.x namespace of evtAdmissao was
\* identified by its tag, as its copy in the 2.5 namespace is.
C12_Testemunha ==
    /\ layout = "S-2200"
    /\ doc.ns = NsAdmS1
    /\ doc.local = "eSocial"
    /\ identificar_layout(ComNamespace(doc, NsAdm)) = "S-2200"

(***************************************************************************)
(* Claims about tree building (specification SpecTree)                     *)
(***************************************************************************)
\* The children of elem whose local tag is tag, in document order.
FilhosComTag(elem, tag) ==
    SelectSeq(elem.filhos, LAMBDA f : NomeLocal(f) = tag)

\* C13: for N >= 2 children of one name the tree holds at that key a list of
\* exactly those N children's trees in document order; for exactly one
\* child of a name it holds that child's tree itself, not a list.
C13_FilhosRepetidosViramLista ==
    entrada.fase = "retornou" =>
        \A tag \in TagsFilho :
            LET irmaos == FilhosComTag(entrada.elem, tag)
            IN /\ Len(irmaos) >= 2 =>
                    /\ tag \in DOMAIN obtido.v
                    /\ obtido.v[tag] =
                         PyList([i \in 1..Len(irmaos) |-> elemento_para_dict(irmaos[i])])
               /\ Len(irmaos) = 1 =>
                    /\ tag \in DOMAIN obtido.v
                    /\ obtido.v[tag] = elemento_para_dict(irmaos[1])

(***************************************************************************)
(* Claims about field resolution (specification SpecResolucao)             *)
(***************************************************************************)
\* What the record's tree holds at the end of the path of a key, the text
\* of a mapping taken out of it; Falta when the tree or the key is missing.
NoCaminho(registro, chave) ==
    LET j == registro["json_data"]
    IN IF j.tipo # "json" THEN Falta
       ELSE IF chave \notin DOMAIN j.v.v["evt"].v THEN Falta
       ELSE IF j.v.v["evt"].v[chave].tipo = "dict"
            THEN j.v.v["evt"].v[chave].v["_text"]
            ELSE j.v.v["evt"].v[chave]

\* Empty as the specification defines it: absent, null, or a string of
\* nothing but whitespace.
Vazio(valor) ==
    \/ valor = Falta
    \/ valor = PyNone
    \/ valor.tipo = "str" /\ \A i \in 1..Len(valor.v) : EhEspaco(valor.v[i])

\* What a record holds under a key, Falta when the key is missing.
NaColuna(registro, chave) ==
    IF chave \in DOMAIN registro THEN registro[chave] ELSE Falta

\* The sources of a definition after the flat column: the primary path, the
\* alternatives in their order, the default.
FontesDaArvore(definicao, registro) ==
    (IF "caminho_json" \in DOMAIN definicao THEN << NoCaminho(registro, "p") >> ELSE << >>)
    \o (IF "caminho_json_alternativos" \in DOMAIN definicao
        THEN [i \in 1..Len(definicao["caminho_json_alternativos"]) |->
                 NoCaminho(registro, ChaveAlt(i))]
        ELSE << >>)
    \o << DictGet(definicao, "valor_padrao") >>

\* The first source that is not empty, Falta when all are.
RECURSIVE PrimeiraPreenchida(_)
PrimeiraPreenchida(fontes) ==
    IF fontes = << >> THEN Falta
    ELSE IF ~Vazio(Head(fontes)) THEN Head(fontes)
    ELSE PrimeiraPreenchida(Tail(fontes))

\* The result is the first source of fontes that is not empty, and is
\* itself empty when every source is.
Resolve(fontes) ==
    IF PrimeiraPreenchida(fontes) = Falta THEN Vazio(obtido)
    ELSE obtido = PrimeiraPreenchida(fontes)

\* The call resolved a whole field (flat column first) and has returned.
ResolveuCampo ==
    /\ entrada.fase = "retornou"
    /\ entrada.por \in {"_gerar_dados_template", "_extrair_valor_prioritario"}

\* C14: when the origin of a field is a flat column that is absent or empty
\* on the record, the result is the first non-empty of the primary path,
\* the alternative paths in their order, and the default.
C14_OrdemDeResolucao ==
    (/\ ResolveuCampo
     /\ entrada.definicao["origem"] = ColunaOrigem
     /\ Vazio(NaColuna(entrada.registro, ColunaOrigem))
     /\ Rotulo \notin DOMAIN entrada.registro) =>
        Resolve(FontesDaArvore(entrada.definicao, entrada.registro))

FontesDaChamada ==
    (IF entrada.por = "_extrair_valor_prioritario"
     THEN << NaColuna(entrada.registro, Rotulo) >> ELSE << >>)
    \o (IF entrada.definicao["origem"] = "json_data"
        THEN FontesDaArvore(entrada.definicao, entrada.registro)
        ELSE << NaColuna(entrada.registro, ColunaOrigem) >>
             \o (IF entrada.por = "_gerar_dados_template"
                 THEN FontesDaArvore(entrada.definicao, entrada.registro)
                 ELSE << DictGet(entrada.definicao, "valor_padrao") >>))

\* C16: at every step a candidate is passed over exactly when it is absent,
\* null or a string of only whitespace; the first candidate that is
\* anything else is the result.
C16_VazioPassaAdiante ==
    ResolveuCampo => Resolve(FontesDaChamada)

(***************************************************************************)
(* Claims about collection extraction (specification SpecColecao)          *)
(***************************************************************************)
\* The entries the tree of a record holds at the collection path, in
\* document order; none when there is no tree or no value at the path.
EntradasDe(registro) ==
    LET j == registro["json_data"]
    IN IF j.tipo # "json" THEN << >>
       ELSE IF "dependente" \notin DOMAIN j.v.v["evtAdmissao"].v["trabalhador"].v THEN << >>
       ELSE IF j.v.v["evtAdmissao"].v["trabalhador"].v["dependente"].tipo = "list"
            THEN j.v.v["evtAdmissao"].v["trabalhador"].v["dependente"].v
            ELSE << j.v.v["evtAdmissao"].v["trabalhador"].v["dependente"] >>

\* The name an entry carries, Falta when its nmDep has no text.
NomeDe(dep) ==
    IF dep.v["nmDep"].tipo = "str" THEN dep.v["nmDep"]
    ELSE IF "_text" \in DOMAIN dep.v["nmDep"].v THEN dep.v["nmDep"].v["_text"]
    ELSE Falta

\* The row of the parent record alone: its flat column, no name.
LinhaDoPai(registro) ==
    [k \in {RotuloEmpregador, RotuloNome} |->
        IF k = RotuloEmpregador THEN registro[ColunaOrigem] ELSE StrVazia]

\* The row of one entry: the employer of the tree and the entry's name.
LinhaDaEntrada(dep) ==
    [k \in {RotuloEmpregador, RotuloNome} |->
        IF k = RotuloEmpregador THEN PyStr(<< "e" >>) ELSE NomeDe(dep)]

\* C17: a record whose tree has no value at the collection path adds
\* exactly one row, built from the parent record's own data.
C17_SemColecaoUmaLinhaDoPai ==
    entrada.fase = "retornou" =>
        /\ obtido.dados_filtrados = Concatenar(obtido.por_registro)
        /\ \A i \in 1..Len(entrada.dados) :
               EntradasDe(entrada.dados[i]) = << >> =>
                   obtido.por_registro[i] = << LinhaDoPai(entrada.dados[i]) >>

\* C17 witness: the second of two records has a tree without the
\* collection and added its one row after the two rows of the first.
C17_Testemunha ==
    /\ entrada.fase = "retornou"
    /\ Len(entrada.dados) = 2
    /\ Len(EntradasDe(entrada.dados[1])) = 2
    /\ entrada.dados[2]["json_data"].tipo = "json"
    /\ EntradasDe(entrada.dados[2]) = << >>
    /\ Len(obtido.dados_filtrados) = 3
    /\ obtido.dados_filtrados[3] = LinhaDoPai(entrada.dados[2])

\* C18 as stated: every entry of a record's collection gives one row, in
\* document order.
C18_UmaLinhaPorItem ==
    entrada.fase = "retornou" =>
        \A i \in 1..Len(entrada.dados) :
            EntradasDe(entrada.dados[i]) # << >> =>
                /\ Len(obtido.por_registro[i]) = Len(EntradasDe(entrada.dados[i]))
                /\ \A k \in 1..Len(EntradasDe(entrada.dados[i])) :
                       NomeDe(EntradasDe(entrada.dados[i])[k]) # Falta =>
                           obtido.por_registro[i][k] =
                               LinhaDaEntrada(EntradasDe(entrada.dados[i])[k])

\* The entries of a record's collection that carry a name, in document order.
EntradasComNome(registro) ==
    SelectSeq(EntradasDe(registro), LAMBDA dep : NomeDe(dep) # Falta)

\* C18: the entries of a record's collection that carry a name give one row
\* each, in document order, equal entries included; entries without a name
\* give none, and a collection without any named entry gives the parent row.
C18_UmaLinhaPorItemComNome ==
    entrada.fase = "retornou" =>
        \A i \in 1..Len(entrada.dados) :
            obtido.por_registro[i] =
                IF EntradasComNome(entrada.dados[i]) = << >>
                THEN << LinhaDoPai(entrada.dados[i]) >>
                ELSE [k \in 1..Len(EntradasComNome(entrada.dados[i])) |->
                         LinhaDaEntrada(EntradasComNome(entrada.dados[i])[k])]

\* C18 witness: the first record holds B before A, the second holds A
\* twice; the four rows came out in that order.
C18_Testemunha ==
    /\ entrada.fase = "retornou"
    /\ Len(entrada.dados) = 2
    /\ Len(EntradasDe(entrada.dados[1])) = 2
    /\ Len(EntradasDe(entrada.dados[2])) = 2
    /\ Len(obtido.dados_filtrados) = 4
    /\ obtido.dados_filtrados[1][RotuloNome] = PyStr(<< "B" >>)
    /\ obtido.dados_filtrados[2][RotuloNome] = PyStr(<< "A" >>)
    /\ obtido.dados_filtrados[3][RotuloNome] = PyStr(<< "A" >>)
    /\ obtido.dados_filtrados[4] = obtido.dados_filtrados[3]

(***************************************************************************)
(* Claims about the lines of an export file (specification SpecCsv)        *)
(***************************************************************************)
\* What a value reads as in the file, value by value.
Apresentado(valor) ==
    IF valor = PyNone THEN << >>
    ELSE IF valor = PyStr(DataIso) THEN << "3", "1", "/", "0", "1", "/", "2", "0", "2", "0" >>
    ELSE IF valor = PyStr(<< "1", ".", "5" >>) THEN << "1", ",", "5", "0" >>
    ELSE IF valor = PyInt(7) THEN << "7" >>
    ELSE valor.v

EscreveuCsv == entrada.fase = "retornou" /\ "colunas" \in DOMAIN entrada

\* C19: in a written export file the header is the template's column list
\* and every data line has one cell per column, in the order of that list,
\* whatever keys the row carries: the cell of a column the row lacks is the
\* empty string, and the value of a key outside the list is nowhere.
C19_OrdemDasColunas ==
    (EscreveuCsv /\ entrada.colunas # << >>) =>
        /\ obtido.cabecalho = entrada.colunas
        /\ Len(obtido.linhas) = Len(entrada.dados)
        /\ \A k \in 1..Len(entrada.dados) :
              /\ Len(obtido.linhas[k]) = Len(entrada.colunas)
              /\ \A i \in 1..Len(entrada.colunas) :
                    /\ obtido.linhas[k][i] =
                          IF entrada.colunas[i] \in DOMAIN entrada.dados[k]
                          THEN Apresentado(entrada.dados[k][entrada.colunas[i]])
                          ELSE << >>
                    /\ obtido.linhas[k][i] # << "z" >>

\* A row that lacks column B and carries the foreign key Z, written under
\* the column list B, A.
C19_Testemunha ==
    /\ EscreveuCsv
    /\ entrada.colunas = << "B", "A" >>
    /\ Len(entrada.dados) = 2
    /\ DOMAIN entrada.dados[1] = {"A", "Z"}
    /\ entrada.dados[1]["A"] = PyStr(<< "a" >>)
    /\ DOMAIN entrada.dados[2] = {"A", "B"}
    /\ obtido.cabecalho = << "B", "A" >>
    /\ obtido.linhas[1] = << << >>, << "a" >> >>
    /\ Len(obtido.linhas[2]) = 2

(***************************************************************************)
(* Claims about display values (specification SpecValor)                   *)
(***************************************************************************)
GruposDeDigitos == Grupos \ {<< >>}

\* C20: a decimal-typed field whose raw value has a point before a comma,
\* such as "1.234,56", is formatted with the point taken as the thousands
\* separator and the comma as the decimal separator: "1234,56".
C20_MilharEDecimal ==
    \A a \in GruposDeDigitos, b \in GruposDeDigitos, c \in {<< "1" >>, << "5", "6" >>} :
        ( /\ entrada.fase = "retornou"
          /\ "valor" \in DOMAIN entrada
          /\ entrada.por = "formatar_valor"
          /\ TipoDe(entrada.definicao) = "decimal"
          /\ entrada.valor = PyStr(a \o << "." >> \o b \o << "," >> \o c) )
        => obtido = PyStr(a \o b \o << "," >> \o SubSeq(c \o << "0", "0" >>, 1, 2))

(***************************************************************************)
(* Validation and sanitization of a record before it is stored             *)
(* (texts are sequences of characters)                                     *)
(***************************************************************************)
ano_atual == 2026        \* datetime.now().year

\* re.sub(r'\D', '', s), re.sub(r'[^\w]', '', s) and re.sub(r'[^\w\s]', '', s)
\* over the characters of the model, s.zfill(n) of a text of digits.
EhPalavra(c) == c \in Digitos \cup {"A", "C", "L", "a", "n", "_"}
SemNaoDigitos(s) == SelectSeq(s, LAMBDA c : c \in Digitos)
SemNaoPalavra(s) == SelectSeq(s, EhPalavra)
SemEspeciais(s) == SelectSeq(s, LAMBDA c : EhPalavra(c) \/ EhEspaco(c))
RECURSIVE zfill(_, _)
zfill(s, n) == IF Len(s) >= n THEN s ELSE zfill(<< "0" >> \o s, n)

\* ord(c) and a < b of two str
Ord(c) ==
    CASE c = " " -> 32 [] c = "!" -> 33 [] c = "-" -> 45 [] c = "." -> 46 [] c = "/" -> 47
      [] c \in Digitos -> 48 + ValorDigito(c)
      [] c = "A" -> 65 [] c = "C" -> 67 [] c = "L" -> 76 [] c = "_" -> 95
      [] c = "a" -> 97 [] OTHER -> 110
RECURSIVE Menor(_, _)
Menor(a, b) ==
    IF b = << >> THEN FALSE
    ELSE IF a = << >> THEN TRUE
    ELSE IF Ord(a[1]) # Ord(b[1]) THEN Ord(a[1]) < Ord(b[1])
    ELSE Menor(Tail(a), Tail(b))

\* sum of int(d[i]) * pesos[i] over the positions of pesos
RECURSIVE SomaPonderada(_, _, _)
SomaPonderada(d, pesos, i) ==
    IF i > Len(pesos) THEN 0
    ELSE ValorDigito(d[i]) * pesos[i] + SomaPonderada(d, pesos, i + 1)

\* ValidadorDados.validar_cpf(cpf)
validar_cpf(cpf) ==
    LET d == SemNaoDigitos(cpf)
        resto(pesos) == LET r == (SomaPonderada(d, pesos, 1) * 10) % 11
                        IN IF r = 10 THEN 0 ELSE r
    IN /\ cpf # << >>
       /\ Len(d) = 11
       /\ Cardinality({d[i] : i \in 1..Len(d)}) # 1
       /\ resto(<< 10, 9, 8, 7, 6, 5, 4, 3, 2 >>) = ValorDigito(d[10])
       /\ resto(<< 11, 10, 9, 8, 7, 6, 5, 4, 3, 2 >>) = ValorDigito(d[11])

\* ValidadorDados.validar_cnpj(cnpj)
validar_cnpj(cnpj) ==
    LET d == SemNaoDigitos(cnpj)
        digito(pesos) == LET resto == SomaPonderada(d, pesos, 1) % 11
                         IN IF resto < 2 THEN 0 ELSE 11 - resto
    IN /\ cnpj # << >>
       /\ Len(d) = 14
       /\ Cardinality({d[i] : i \in 1..Len(d)}) # 1
       /\ digito(<< 5, 4, 3, 2, 9, 8, 7, 6, 5, 4, 3, 2 >>) = ValorDigito(d[13])
       /\ digito(<< 6, 5, 4, 3, 2, 9, 8, 7, 6, 5, 4, 3, 2 >>) = ValorDigito(d[14])

\* re.match(PADRAO_DATA, s): ^\d{4}-\d{2}-\d{2}$
PADRAO_DATA(s) ==
    /\ Len(s) = 10
    /\ \A i \in 1..10 : IF i \in {5, 8} THEN s[i] = "-" ELSE s[i] \in Digitos

\* ValidadorDados.validar_data(data_str): empty is valid; otherwise the
\* pattern, a date of the calendar, and a year from 1900 to next year.
validar_data(data_str) ==
    \/ data_str = << >>
    \/ /\ PADRAO_DATA(data_str)
       /\ EhDataValida(data_str)
       /\ Ano(data_str) >= 1900
       /\ Ano(data_str) <= ano_atual + 1

\* The checks of validar_registro_s1020 and validar_registro_s1030 on the
\* two dates of validity.
ValidadeEmOrdem(dados) ==
    /\ validar_data(dados.inicio_validade)
    /\ \/ dados.fim_validade = << >>
       \/ /\ validar_data(dados.fim_validade)
          /\ ~(dados.inicio_validade # << >> /\ Menor(dados.fim_validade, dados.inicio_validade))

\* valido of ValidadorDados.validar_registro_s2200 / _s1020 / _s1030(dados)
validar_registro(dados, tipo_registro) ==
    CASE tipo_registro = "S-2200" ->
            /\ dados.cpf_trabalhador = << >> \/ validar_cpf(dados.cpf_trabalhador)
            /\ dados.nis_trabalhador = << >>     \* the model has no worker with a NIS
            /\ validar_data(dados.data_nascimento)
            /\ validar_data(dados.data_admissao)
            /\ dados.cnpj_empregador = << >> \/ validar_cnpj(dados.cnpj_empregador)
      [] tipo_registro = "S-1020" ->
            /\ dados.codigo # << >>
            /\ ValidadeEmOrdem(dados)
            /\ dados.cnpj_empregador = << >> \/ validar_cnpj(dados.cnpj_empregador)
      [] OTHER ->
            /\ dados.codigo # << >>
            /\ dados.cbo = << >> \/ Len(dados.cbo) = 6
            /\ ValidadeEmOrdem(dados)
            /\ dados.cnpj_empregador = << >> \/ validar_cnpj(dados.cnpj_empregador)

\* ValidadorDados.sanitizar_dados(dados, tipo_registro): a copy of dados
\* with the CPF and the CNPJ reduced to digits and the field of the layout
\* cleaned.
sanitizar_dados(dados, tipo_registro) ==
    [chave \in DOMAIN dados |->
        CASE chave \in {"cpf_trabalhador", "cnpj_empregador"} -> SemNaoDigitos(dados[chave])
          [] tipo_registro = "S-2200" /\ chave = "nome_trabalhador" -> SemEspeciais(dados[chave])
          [] tipo_registro = "S-1020" /\ chave = "codigo" -> SemNaoPalavra(dados[chave])
          [] tipo_registro = "S-1030" /\ chave = "cbo" /\ dados[chave] # << >> ->
                SubSeq(zfill(SemNaoDigitos(dados[chave]), 6), 1, 6)
          [] OTHER -> dados[chave]]

\* What stands in the list handed to inserir_dados for a record that was
\* dropped.
Rejeitado == [rejeitado |-> TRUE]

\* A pipeline that drops the record sanitization could not repair.
validar_ou_rejeitar(dados, tipo_registro) ==
    IF validar_registro(dados, tipo_registro)
    THEN [entregue |-> dados, validacoes |-> 1, sanitizacoes |-> 0, valido |-> TRUE]
    ELSE LET corrigido == sanitizar_dados(dados, tipo_registro)
             valido == validar_registro(corrigido, tipo_registro)
         IN [entregue |-> IF valido THEN corrigido ELSE Rejeitado,
             validacoes |-> 2, sanitizacoes |-> 1, valido |-> valido]

\* The validation block of _processar_s1020, _processar_s1030 and
\* _processar_s2200 for one record: the record that goes on to inserir_dados,
\* the number of validations and of sanitizations, and the last verdict.
validar_e_sanitizar(dados, tipo_registro) ==
    IF validar_registro(dados, tipo_registro)
    THEN [entregue |-> dados, validacoes |-> 1, sanitizacoes |-> 0, valido |-> TRUE]
    ELSE LET corrigido == sanitizar_dados(dados, tipo_registro)
         IN [entregue |-> corrigido, validacoes |-> 2, sanitizacoes |-> 1,
             valido |-> validar_registro(corrigido, tipo_registro)]

\* The texts the extractors may find in a document.
CodigosLidos ==
    {<< >>,
     << "L", "1" >>,
     << "L", "-", "1" >>,
     << "-" >>}
DatasDeInicio ==
    {<< >>,
     << "2", "0", "2", "0", "-", "0", "1", "-", "0", "1" >>,
     << "2", "0", "2", "0", "-", "1", "3", "-", "0", "1" >>}
DatasDeFim ==
    {<< >>,
     << "2", "0", "1", "9", "-", "0", "6", "-", "3", "0" >>,
     << "2", "0", "2", "0", "-", "1", "2", "-", "3", "1" >>,
     << "1", "8", "9", "9", "-", "0", "1", "-", "0", "1" >>}
CnpjsLidos ==
    {<< >>,
     << "1", "1", ".", "2", "2", "2", ".", "3", "3", "3", "/", "0", "0", "0", "1", "-", "8", "1" >>,
     << "1", "1", "2", "2", "2", "3", "3", "3", "0", "0", "0", "1", "8", "0" >>,
     << "1", "2", "3" >>}
CbosLidos ==
    {<< >>,
     << "1", "2", "3", "4", "5", "6" >>,
     << "1", "2", "3", "4", "-", "5", "6" >>,
     << "1", "2", "3", "4", "5" >>}
CpfsLidos ==
    {<< >>,
     << "5", "2", "9", ".", "9", "8", "2", ".", "2", "4", "7", "-", "2", "5" >>,
     << "1", "1", "1", ".", "1", "1", "1", ".", "1", "1", "1", "-", "1", "1" >>,
     << "1", "2", "3" >>}
NomesLidos ==
    {<< "A", "n", "a" >>,
     << "A", "n", "a", "!" >>}

RegistrosLidos(tipo_registro) ==
    CASE tipo_registro = "S-2200" ->
            [cpf_trabalhador : CpfsLidos, nis_trabalhador : {<< >>}, nome_trabalhador : NomesLidos,
             data_nascimento : DatasDeInicio, data_admissao : DatasDeInicio,
             cnpj_empregador : CnpjsLidos]
      [] tipo_registro = "S-1020" ->
            [codigo : CodigosLidos, inicio_validade : DatasDeInicio, fim_validade : DatasDeFim,
             cnpj_empregador : CnpjsLidos]
      [] OTHER ->
            [codigo : CodigosLidos, cbo : CbosLidos, inicio_validade : DatasDeInicio,
             fim_validade : DatasDeFim, cnpj_empregador : CnpjsLidos]

InitValidacao ==
    /\ \E tipo_registro \in {"S-1020", "S-1030", "S-2200"} :
       \E dados \in RegistrosLidos(tipo_registro) :
          entrada = [fase |-> "extraido", tipo_registro |-> tipo_registro, dados |-> dados]
    /\ obtido = PyNone

\* The record passes through the validation block and goes on to storage.
ValidarESanitizar ==
    /\ entrada.fase = "extraido"
    /\ entrada' = [entrada EXCEPT !.fase = "entregue"]
    /\ obtido' = validar_e_sanitizar(entrada.dados, entrada.tipo_registro)
    /\ UNCHANGED << bdVars, ingestVars, exportVars, layoutVars >>

InitSpecValidacao == InitBd /\ InitIngest /\ InitExport /\ InitLayout /\ InitValidacao

SpecValidacao == InitSpecValidacao /\ [][ValidarESanitizar]_vars

(***************************************************************************)
(* Claims about the counters of a directory run (specification SpecIngest) *)
(***************************************************************************)
\* C24: processar_diretorio returns the number of files processed
\* successfully, one per file, so the result never exceeds the number of
\* files selected for the run.
C24_NaoExcedeSelecionados ==
    op = "processar_diretorio" => retorno <= fila.total

\* C27: a document from which no event was ingested because every event of
\* it was not identified or has no registered extractor is not reported as
\* processed: _processar_arquivo returns False for it.
C27_NadaIngeridoNaoESucesso ==
    ( /\ visitados > 0
      /\ ultimo.arquivo.estado = "ok"
      /\ ultimo.trace # << >>
      /\ \A i \in 1..Len(ultimo.trace) :
             ultimo.trace[i] \in {"nao_identificado", "nao_suportado"} )
    => ~ultimo.resultado

\* What the storage insert of a single-event document reports, on the tables
\* as they were before the document.
RetornoDaInsercao(b, ev) ==
    inserir_dados(b, TabelaDoLayout(identificar_layout(ev)),
                  << [chave |-> ev.carga.chave, valor |-> ev.carga.valor] >>).retorno

\* C28: an event is counted in arquivos_processados only if a record of it
\* was persisted: when the storage insert for the event of a single-event
\* document reports zero rows, the event is not counted as processed.
C28_ContadoSoSePersistido ==
    ( /\ visitados > 0
      /\ op = "processar_arquivo"
      /\ ultimo.arquivo.estado = "ok"
      /\ ~EhEnvelope(ultimo.arquivo)
      /\ Ingerivel(ultimo.arquivo.raiz)
      /\ RetornoDaInsercao(antes, ultimo.arquivo.raiz) = 0 )
    => (ultimo.trace # << "ok" >> /\ ~ultimo.resultado)

(***************************************************************************)
(* Claims about the count of an export run (specification SpecExport)      *)
(***************************************************************************)
\* C25: exportar_todos_templates counts the templates exported
\* successfully: a template whose export met an error, or whose output file
\* could not be written, is not counted.
C25_SoContaExportados ==
    ( /\ ult_export.nome # "nenhum"
      /\ pendentes.exportador = "templates_empresa"
      /\ (ult_export.erro \/ ~ult_export.cenario.abre) )
    => ~ult_export.contado

(***************************************************************************)
(* Further claims about the storage engine (specification Spec)            *)
(***************************************************************************)
\* C26: the count inserir_dados returns is the number of records of the call
\* that were persisted: the call stored no more rows than it reports, and
\* reports none when it stored nothing.
C26_ContagemIgualAoPersistido ==
    op = "inserir_dados" =>
        /\ TotalLinhas(bd) - TotalLinhas(antes) <= retorno
        /\ (bd = antes /\ bd["esocial_s2206"] = << >>) => retorno = 0

\* C29: executar_query returns every row a successful read statement
\* matches, without truncation: a SELECT on a table returns all its rows.
C29_TodasAsLinhas ==
    ( /\ op = "executar_query"
      /\ sql_exec # << >>
      /\ sql_exec[Len(sql_exec)] = "select" )
    => \E t \in Tabelas : retorno = bd[t]

(***************************************************************************)
(* Claims about export over stored rows (specification SpecExportBd)       *)
(***************************************************************************)
\* C23: the export phase only reads: the export of a template leaves every
\* table as it was (so the tables after a run of any number of templates are
\* those before it), and hands only read statements to the cursor.
C23_ExportacaoSoLe ==
    op \in {"exportar_template", "exportacao_concluida"} =>
        /\ bd = antes
        /\ \A i \in 1..Len(sql_exec) : sql_exec[i] \in {"select", "explain"}

\* A template was exported with the rows of a table that holds some, and its
\* file has their lines.
C23_Testemunha ==
    /\ op = "exportar_template"
    /\ sql_exec = << "explain", "select" >>
    /\ ult_export.cenario.n > 0
    /\ ult_export.contado
    /\ Len(saida[ult_export.nome].linhas) = 1 + ult_export.cenario.n
    /\ Len(bd["esocial_s2205"]) > 0
    /\ Len(tentados) >= 2

(***************************************************************************)
(* Claims about clearing the tables (specification SpecLimpeza)            *)
(***************************************************************************)
\* C30: after limpar_dados_para_processamento has returned True no data
\* table, esocial_dependentes included, holds a row.
C30_NadaResta ==
    (op = "limpar_dados" /\ retorno = TRUE) =>
        \A t \in DOMAIN bd : bd[t] = << >>

(***************************************************************************)
(* Claims about the return code of the program (specification SpecMain)    *)
(***************************************************************************)
\* C22: main returns 1 only when one of its construction steps raised; when
\* none did it returns 0, whatever number of documents failed to be ingested
\* and of templates failed to be exported.
C22_SoErroDeInicioFalha ==
    op = "main" =>
        /\ obtido \in {0, 1}
        /\ obtido = 1 => entrada.falha # "nenhum"
        /\ entrada.falha = "nenhum" => obtido = 0

\* main returned 0 from a run in which the only document failed and no
\* template could be generated.
C22_Testemunha ==
    /\ op = "main"
    /\ obtido = 0
    /\ fila.total = 1
    /\ arquivos_processados = 0
    /\ arquivos_com_erro = 1
    /\ templates_processados = 0
    /\ ult_export.erros = Len(tentados)
    /\ Len(tentados) >= 2

(***************************************************************************)
(* Claims about validation before storage (specification SpecValidacao)    *)
(***************************************************************************)
\* C21: a record that fails validation is sanitized once, validated once
\* more, and what goes on to storage is the sanitized record, whether or not
\* the second validation succeeded.
C21_InvalidoNuncaRejeitado ==
    (entrada.fase = "entregue" /\ ~validar_registro(entrada.dados, entrada.tipo_registro)) =>
        /\ obtido.sanitizacoes = 1
        /\ obtido.validacoes = 2
        /\ obtido.entregue = sanitizar_dados(entrada.dados, entrada.tipo_registro)

\* A record sanitization changed but could not repair went on to storage.
C21_Testemunha ==
    /\ entrada.fase = "entregue"
    /\ ~validar_registro(entrada.dados, entrada.tipo_registro)
    /\ ~obtido.valido
    /\ obtido.validacoes = 2
    /\ obtido.entregue # entrada.dados
    /\ obtido.entregue # Rejeitado

====
